---- MODULE Spec2Model ----
(***************************************************************************)
(* A model of the TIFF container core of PIL/TiffImagePlugin.py: the tag   *)
(* directory (ImageFileDirectory_v2), the multi-page reader                *)
(* (TiffImageFile) and the appending writer (AppendingTiffWriter).         *)
(*                                                                         *)
(* Files and payloads are sequences of bytes.  A Python int is kept as a   *)
(* sign and a magnitude, the magnitude being its little-endian base-256    *)
(* digits without trailing zeros, so that 2**16, 2**32 and 2**63 are       *)
(* exact.  Small quantities (lengths, positions inside a file) are plain   *)
(* integers.                                                               *)
(***************************************************************************)
EXTENDS Integers, Sequences, FiniteSets, TLC

\* ------------------------------------------------------------------------
\* Bytes and Python integers
\* ------------------------------------------------------------------------

Reverse(s) == [i \in 1..Len(s) |-> s[Len(s) + 1 - i]]

Zeros(n) == [i \in 1..n |-> 0]

\* bytes.ljust(w, b"\0")
ljust(s, w) == IF Len(s) >= w THEN s ELSE s \o Zeros(w - Len(s))

RECURSIVE Trim(_)
Trim(s) ==
    IF s = <<>> THEN s
    ELSE IF s[Len(s)] = 0 THEN Trim(SubSeq(s, 1, Len(s) - 1)) ELSE s

RECURSIVE MagOfInt(_)
MagOfInt(n) == IF n = 0 THEN <<>> ELSE <<n % 256>> \o MagOfInt(n \div 256)

RECURSIVE IntOfMag(_)
IntOfMag(m) == IF m = <<>> THEN 0 ELSE m[1] + 256 * IntOfMag(Tail(m))

RECURSIVE AddDigits(_, _, _)
AddDigits(a, b, c) ==
    IF a = <<>> /\ b = <<>> THEN (IF c = 0 THEN <<>> ELSE <<c>>)
    ELSE LET x == IF a = <<>> THEN 0 ELSE a[1]
             y == IF b = <<>> THEN 0 ELSE b[1]
             s == x + y + c
         IN  <<s % 256>> \o AddDigits(IF a = <<>> THEN a ELSE Tail(a),
                                      IF b = <<>> THEN b ELSE Tail(b),
                                      s \div 256)

MagAdd(a, b) == Trim(AddDigits(a, b, 0))

\* a - b for a >= b
RECURSIVE SubDigits(_, _, _)
SubDigits(a, b, c) ==
    IF a = <<>> THEN <<>>
    ELSE LET y == IF b = <<>> THEN 0 ELSE b[1]
             d == a[1] - y - c
         IN  <<IF d < 0 THEN d + 256 ELSE d>>
             \o SubDigits(Tail(a), IF b = <<>> THEN b ELSE Tail(b),
                          IF d < 0 THEN 1 ELSE 0)

MagSub(a, b) == Trim(SubDigits(a, b, 0))

RECURSIVE MagLt(_, _)
MagLt(a, b) ==
    IF Len(a) # Len(b) THEN Len(a) < Len(b)
    ELSE IF a = <<>> THEN FALSE
    ELSE IF a[Len(a)] # b[Len(b)] THEN a[Len(a)] < b[Len(b)]
    ELSE MagLt(Trim(SubSeq(a, 1, Len(a) - 1)), Trim(SubSeq(b, 1, Len(b) - 1)))

\* 2**(8*w) and 2**(8*w - 1)
Pow256(w) == Zeros(w) \o <<1>>
HalfPow256(w) == Zeros(w - 1) \o <<128>>

\* A Python value element: an int (sign, magnitude), a bytes object or a str
\* (its code points, all below 256).
PyInt(neg, m) == [k |-> "int", neg |-> neg, m |-> m]
PyBytes(b) == [k |-> "bytes", neg |-> FALSE, m |-> b]
PyStr(b) == [k |-> "str", neg |-> FALSE, m |-> b]
I(n) == IF n < 0 THEN PyInt(TRUE, MagOfInt(0 - n)) ELSE PyInt(FALSE, MagOfInt(n))

\* a + b on Python ints
IntAdd(a, b) ==
    IF a.neg = b.neg THEN PyInt(a.neg /\ MagAdd(a.m, b.m) # <<>>, MagAdd(a.m, b.m))
    ELSE IF MagLt(a.m, b.m) THEN PyInt(b.neg, MagSub(b.m, a.m))
    ELSE PyInt(a.neg /\ MagSub(a.m, b.m) # <<>>, MagSub(a.m, b.m))

\* a < b on Python ints
IntLt(a, b) ==
    IF a.neg /\ ~b.neg THEN TRUE
    ELSE IF ~a.neg /\ b.neg THEN FALSE
    ELSE IF a.neg THEN MagLt(b.m, a.m) ELSE MagLt(a.m, b.m)

\* A position in a stream: the int itself when it is below 2**24, else a
\* position past the end of every stream of the model.
FarPos == 16777216
PosOf(v) == IF Len(v.m) <= 3 THEN IntOfMag(v.m) ELSE FarPos

\* ------------------------------------------------------------------------
\* struct.pack / struct.unpack for one value
\* ------------------------------------------------------------------------

FmtSize(fmt) ==
    CASE fmt \in {"B", "b"} -> 1
      [] fmt \in {"H", "h"} -> 2
      [] fmt \in {"L", "l"} -> 4
      [] fmt \in {"Q", "q"} -> 8

FmtSigned(fmt) == fmt \in {"b", "h", "l", "q"}

\* struct.pack raises struct.error unless this holds
CanPack(fmt, v) ==
    /\ v.k = "int"
    /\ IF FmtSigned(fmt)
       THEN \/ MagLt(v.m, HalfPow256(FmtSize(fmt)))
            \/ v.neg /\ v.m = HalfPow256(FmtSize(fmt))
       ELSE ~v.neg /\ Len(v.m) <= FmtSize(fmt)

\* little-endian bytes in the byte order of the directory, and back
Order(endian, le) == IF endian = ">" THEN Reverse(le) ELSE le

pack(endian, fmt, v) ==
    Order(endian, ljust(IF v.neg THEN MagSub(Pow256(FmtSize(fmt)), v.m) ELSE v.m,
                        FmtSize(fmt)))

FromLE(fmt, le) ==
    IF FmtSigned(fmt) /\ le[FmtSize(fmt)] >= 128
    THEN PyInt(TRUE, MagSub(Pow256(FmtSize(fmt)), Trim(le)))
    ELSE PyInt(FALSE, Trim(le))

unpack(endian, fmt, data) == FromLE(fmt, Order(endian, data))

\* ------------------------------------------------------------------------
\* Tag types and the tag dictionary (TiffTags)
\* ------------------------------------------------------------------------

BYTE == 1
ASCII == 2
SHORT == 3
LONG == 4
RATIONAL == 5
SIGNED_BYTE == 6
UNDEFINED == 7
SIGNED_SHORT == 8
SIGNED_LONG == 9
SIGNED_RATIONAL == 10
FLOAT == 11
DOUBLE == 12
IFD == 13
LONG8 == 16

IMAGEWIDTH == 256
IMAGELENGTH == 257
STRIPOFFSETS == 273
ROWSPERSTRIP == 278
PLANAR_CONFIGURATION == 284
TILEWIDTH == 322
TILELENGTH == 323
TILEOFFSETS == 324
WMPHOTO == 48129

\* TiffTags.lookup(tag): the type and length on record for a tag; 0 stands
\* for "no type" and -1 for "no length" (None) of a tag not in the dictionary.
lookup(tag) ==
    CASE tag = IMAGEWIDTH -> [type |-> LONG, length |-> 1]
      [] tag = IMAGELENGTH -> [type |-> LONG, length |-> 1]
      [] tag = STRIPOFFSETS -> [type |-> LONG, length |-> 0]
      [] tag = ROWSPERSTRIP -> [type |-> LONG, length |-> 1]
      [] tag = PLANAR_CONFIGURATION -> [type |-> SHORT, length |-> 1]
      [] tag = TILEWIDTH -> [type |-> LONG, length |-> 1]
      [] tag = TILELENGTH -> [type |-> LONG, length |-> 1]
      [] tag = TILEOFFSETS -> [type |-> LONG, length |-> 0]
      [] OTHER -> [type |-> 0, length |-> -1]

\* ------------------------------------------------------------------------
\* Python dict (insertion ordered) as a sequence of items
\* ------------------------------------------------------------------------

DictKeys(d) == {d[i].tag : i \in 1..Len(d)}
DictHas(d, t) == t \in DictKeys(d)
DictGet(d, t) == (CHOOSE it \in {d[i] : i \in 1..Len(d)} : it.tag = t).val
DictSet(d, t, v) ==
    IF DictHas(d, t)
    THEN [i \in 1..Len(d) |-> IF d[i].tag = t THEN [tag |-> t, val |-> v] ELSE d[i]]
    ELSE Append(d, [tag |-> t, val |-> v])
DictPop(d, t) == SelectSeq(d, LAMBDA it : it.tag # t)

\* dict of plain values keyed by tag, as a function
Put(f, k, v) == [t \in (DOMAIN f) \cup {k} |-> IF t = k THEN v ELSE f[t]]
Drop(f, k) == [t \in (DOMAIN f) \ {k} |-> f[t]]

Min(S) == CHOOSE a \in S : \A b \in S : a <= b

\* sorted(d.items())
RECURSIVE sorted(_)
sorted(d) ==
    IF d = <<>> THEN <<>>
    ELSE LET t == Min(DictKeys(d))
         IN  <<[tag |-> t, val |-> DictGet(d, t)]>> \o sorted(DictPop(d, t))

\* ------------------------------------------------------------------------
\* ImageFileDirectory_v2
\* ------------------------------------------------------------------------

II == <<73, 73>>
MM == <<77, 77>>

PREFIXES ==
    { MM \o <<0, 42>>, II \o <<42, 0>>, MM \o <<42, 0>>, II \o <<0, 42>>,
      MM \o <<0, 43>>, II \o <<43, 0>> }

accept(prefix) == Len(prefix) >= 4 /\ SubSeq(prefix, 1, 4) \in PREFIXES

None == [k |-> "None", neg |-> FALSE, m |-> <<>>]

\* prefix=None in the constructor's arguments
NoPrefix == <<>>

\* A value as a tag holds it: a tuple of elements, or one element alone.
Tuple(es) == [tup |-> TRUE, e |-> es]
Scalar(el) == [tup |-> FALSE, e |-> <<el>>]

\* The outcome of ImageFileDirectory_v2(ifh, prefix) with prefix possibly
\* None: "ok", or the exception raised.
InitOutcome(ifh, prefix) ==
    IF ~accept(ifh) THEN "SyntaxError"
    ELSE LET p == IF prefix # NoPrefix THEN prefix ELSE SubSeq(ifh, 1, 2)
         IN  IF p # MM /\ p # II THEN "SyntaxError"
             ELSE IF ifh[3] = 43
                  THEN (IF Len(ifh) - 8 = 8 THEN "ok" ELSE "struct.error")
                  ELSE (IF Len(ifh) - 4 = 4 THEN "ok" ELSE "struct.error")

IfdBigtiffOfHeader(ifh) == ifh[3] = 43

\* reset(): the four dictionaries, _next and _offset; self.next is untouched
reset(ifd) ==
    [ifd EXCEPT !.tags_v2 = <<>>, !.tagdata = <<>>, !.tagtype = <<>>,
                !._next = None, !.offset = -1]

\* ImageFileDirectory_v2.__init__ when InitOutcome is "ok"
IfdInit(ifh, prefix) ==
    LET p == IF prefix # NoPrefix THEN prefix ELSE SubSeq(ifh, 1, 2)
        endian == IF p = MM THEN ">" ELSE "<"
        big == IfdBigtiffOfHeader(ifh)
    IN  [prefix |-> p, endian |-> endian, bigtiff |-> big,
         tagtype |-> <<>>, tags_v2 |-> <<>>, tagdata |-> <<>>,
         _next |-> None, offset |-> -1,
         next |-> IF big THEN unpack(endian, "Q", SubSeq(ifh, 9, Len(ifh)))
                  ELSE unpack(endian, "L", SubSeq(ifh, 5, Len(ifh)))]

\* _get_ifh
get_ifh(ifd) ==
    ifd.prefix \o pack(ifd.endian, "H", I(IF ifd.bigtiff THEN 43 ELSE 42))
    \o (IF ifd.bigtiff
        THEN pack(ifd.endian, "H", I(8)) \o pack(ifd.endian, "H", I(0))
        ELSE <<>>)
    \o (IF ifd.bigtiff THEN pack(ifd.endian, "Q", I(16))
        ELSE pack(ifd.endian, "L", I(8)))

\* __len__ / __iter__ / __contains__
IfdKeys(ifd) == (DOMAIN ifd.tagdata) \cup DictKeys(ifd.tags_v2)

AllKind(es, kind) == \A i \in 1..Len(es) : es[i].k = kind

\* the guess with the SHORT range closed at 2**16
InferTypeShortClosed(es) ==
    IF \A i \in 1..Len(es) :
          ~es[i].neg /\ (MagLt(es[i].m, Pow256(2)) \/ es[i].m = Pow256(2))
    THEN SHORT
    ELSE IF \A i \in 1..Len(es) : MagLt(es[i].m, HalfPow256(2)) THEN SIGNED_SHORT
    ELSE IF \A i \in 1..Len(es) : ~es[i].neg THEN LONG
    ELSE SIGNED_LONG

\* the type _setitem guesses for the values of a tag with no type on record
InferType(es) ==
    IF AllKind(es, "int")
    THEN LET short == \A i \in 1..Len(es) :
                         ~es[i].neg /\ MagLt(es[i].m, Pow256(2))
             signed_short == \A i \in 1..Len(es) : MagLt(es[i].m, HalfPow256(2))
             long == \A i \in 1..Len(es) : ~es[i].neg
         IN  IF short THEN SHORT
             ELSE IF signed_short THEN SIGNED_SHORT
             ELSE IF long THEN LONG
             ELSE SIGNED_LONG
    ELSE IF AllKind(es, "str") THEN ASCII
    ELSE IF AllKind(es, "bytes") THEN BYTE
    ELSE UNDEFINED

\* str.encode("ascii", "replace")
EncodeAscii(b) == [i \in 1..Len(b) |-> IF b[i] < 128 THEN b[i] ELSE 63]

\* the type _setitem works with: the one on record, else the dictionary's,
\* else the guess
TypeFor(ifd, tag, es) ==
    IF tag \in DOMAIN ifd.tagtype THEN ifd.tagtype[tag]
    ELSE IF lookup(tag).type # 0 THEN lookup(tag).type
    ELSE InferType(es)

\* the values as _setitem stores them under a type
Normalized(typ, es) ==
    IF typ = UNDEFINED
    THEN [i \in 1..Len(es) |->
             IF es[i].k = "str" THEN PyBytes(EncodeAscii(es[i].m)) ELSE es[i]]
    ELSE es

\* one element when the dictionary says length 1, the type is BYTE, or
\* the tag is not in the dictionary and one value is given; else the tuple
StoredAs(tag, typ, values) ==
    IF \/ lookup(tag).length = 1
       \/ typ = BYTE
       \/ lookup(tag).length = -1 /\ Len(values) = 1
    THEN Scalar(values[1]) ELSE Tuple(values)

SetTyped(ifd, tag, typ, es) ==
    [ifd EXCEPT !.tagtype = Put(ifd.tagtype, tag, typ),
                !.tags_v2 = DictSet(ifd.tags_v2, tag,
                                    StoredAs(tag, typ, Normalized(typ, es)))]

\* _setitem(tag, value, legacy_api=False) for a value made of ints, bytes
\* and strs (at least one)
setitem(ifd, tag, value) == SetTyped(ifd, tag, TypeFor(ifd, tag, value.e), value.e)

\* __delitem__
delitem(ifd, tag) ==
    [ifd EXCEPT !.tags_v2 = DictPop(ifd.tags_v2, tag),
                !.tagdata = Drop(ifd.tagdata, tag)]

\* ------------------------------------------------------------------------
\* The tag codec registry: _load_dispatch and _write_dispatch
\* ------------------------------------------------------------------------

\* the types registered by _register_basic, with their struct format
BasicTypes == {SHORT, LONG, SIGNED_BYTE, SIGNED_SHORT, SIGNED_LONG, IFD, LONG8}

BasicFmt(typ) ==
    CASE typ = SHORT -> "H"
      [] typ = LONG -> "L"
      [] typ = SIGNED_BYTE -> "b"
      [] typ = SIGNED_SHORT -> "h"
      [] typ = SIGNED_LONG -> "l"
      [] typ = IFD -> "L"
      [] typ = LONG8 -> "Q"

\* the types _load_dispatch knows
LoadTypes ==
    {BYTE, ASCII, SHORT, LONG, RATIONAL, SIGNED_BYTE, UNDEFINED, SIGNED_SHORT,
     SIGNED_LONG, SIGNED_RATIONAL, FLOAT, DOUBLE, IFD, LONG8}

\* _load_dispatch[typ][0]
UnitSize(typ) ==
    CASE typ \in {BYTE, ASCII, UNDEFINED} -> 1
      [] typ \in {RATIONAL, SIGNED_RATIONAL} -> 8
      [] typ = FLOAT -> 4
      [] typ = DOUBLE -> 8
      [] OTHER -> FmtSize(BasicFmt(typ))

RECURSIVE Concat(_)
Concat(ss) == IF ss = <<>> THEN <<>> ELSE ss[1] \o Concat(Tail(ss))

\* str(v) for an int v, as ASCII codes
RECURSIVE DivTop(_, _)
DivTop(m, rem) ==
    IF m = <<>> THEN [q |-> <<>>, r |-> rem]
    ELSE LET cur == rem * 256 + m[Len(m)]
             rest == DivTop(SubSeq(m, 1, Len(m) - 1), cur % 10)
         IN  [q |-> rest.q \o <<cur \div 10>>, r |-> rest.r]

RECURSIVE DecDigits(_)
DecDigits(m) ==
    IF m = <<>> THEN <<>>
    ELSE LET d == DivTop(m, 0) IN DecDigits(Trim(d.q)) \o <<48 + d.r>>

str(v) ==
    IF v.m = <<>> THEN <<48>>
    ELSE (IF v.neg THEN <<45>> ELSE <<>>) \o DecDigits(v.m)

Fail == [ok |-> FALSE, data |-> <<>>]
Done(data) == [ok |-> TRUE, data |-> data]

\* _write_dispatch[typ](self, *values): the bytes, or ok = FALSE when the
\* call or the use of its result raises (struct.error, TypeError, ValueError)
write(endian, typ, values) ==
    IF typ \in BasicTypes
    THEN IF \A i \in 1..Len(values) : CanPack(BasicFmt(typ), values[i])
         THEN Done(Concat([i \in 1..Len(values) |->
                              pack(endian, BasicFmt(typ), values[i])]))
         ELSE Fail
    ELSE IF Len(values) # 1 THEN Fail
    ELSE LET v == values[1]
         IN  CASE typ = BYTE ->
                    IF v.k = "bytes" THEN Done(v.m)
                    ELSE IF v.k = "int" /\ ~v.neg /\ Len(v.m) <= 1
                    THEN Done(ljust(v.m, 1))
                    ELSE Fail
               [] typ = ASCII ->
                    IF v.k = "int" THEN Done(str(v) \o <<0>>)
                    ELSE IF v.k = "bytes" THEN Done(v.m \o <<0>>)
                    ELSE Done(EncodeAscii(v.m) \o <<0>>)
               [] typ = UNDEFINED ->
                    IF v.k = "int" THEN Done(str(v))
                    ELSE IF v.k = "bytes" THEN Done(v.m)
                    ELSE Fail

\* _load_dispatch[typ][1](self, data, legacy_api=False), for the types whose
\* values the model holds
handler(endian, typ, data) ==
    IF typ \in BasicTypes
    THEN LET w == UnitSize(typ)
         IN  Tuple([i \in 1..(Len(data) \div w) |->
                       unpack(endian, BasicFmt(typ),
                              SubSeq(data, (i - 1) * w + 1, i * w))])
    ELSE IF typ = ASCII
    THEN Scalar(PyStr(IF data # <<>> /\ data[Len(data)] = 0
                      THEN SubSeq(data, 1, Len(data) - 1) ELSE data))
    ELSE Scalar(PyBytes(data))

\* __getitem__(tag) on a tag the directory holds: decodes the raw payload
\* on first access and stores the result through _setitem
getitem(ifd, tag) ==
    IF DictHas(ifd.tags_v2, tag) THEN ifd
    ELSE setitem(ifd, tag, handler(ifd.endian, ifd.tagtype[tag], ifd.tagdata[tag]))

\* ------------------------------------------------------------------------
\* tobytes
\* ------------------------------------------------------------------------

SlotSize(big) == IF big THEN 8 ELSE 4
SlotFmt(big) == IF big THEN "Q" ELSE "L"
EntrySize(big) == IF big THEN 20 ELSE 12
CountSize(big) == IF big THEN 8 ELSE 2

\* the items in the order the caller set them
UnsortedItems(ifd) == ifd.tags_v2

\* the items tobytes serializes, in the order it serializes them
SerializedItems(ifd) == sorted(ifd.tags_v2)

\* count is the sum of lengths for string and arbitrary data
CountOf(typ, data, values) ==
    IF typ \in {BYTE, ASCII, UNDEFINED} THEN Len(data) ELSE Len(values)

\* the entry of a tag whose data fits into the slot, and of one whose data
\* goes to the auxiliary area at offset
InlineEntry(ifd, item, data) ==
    [tag |-> item.tag, typ |-> ifd.tagtype[item.tag],
     count |-> CountOf(ifd.tagtype[item.tag], data, item.val.e),
     value |-> ljust(data, SlotSize(ifd.bigtiff)), data |-> <<>>]

SpilledEntry(ifd, item, data, offset) ==
    [tag |-> item.tag, typ |-> ifd.tagtype[item.tag],
     count |-> CountOf(ifd.tagtype[item.tag], data, item.val.e),
     value |-> pack(ifd.endian, SlotFmt(ifd.bigtiff), I(offset)), data |-> data]

\* pass 1 of tobytes over the items left: the entries (tag, typ, count,
\* value, data) and the offset past the auxiliary data
RECURSIVE Pass1(_, _, _, _)
Pass1Item(ifd, items, offset, entries, w) ==
    IF ~w.ok THEN [ok |-> FALSE, offset |-> offset, entries |-> entries]
    ELSE IF Len(w.data) <= SlotSize(ifd.bigtiff)
    THEN Pass1(ifd, Tail(items), offset,
               Append(entries, InlineEntry(ifd, items[1], w.data)))
    ELSE Pass1(ifd, Tail(items), offset + ((Len(w.data) + 1) \div 2) * 2,
               Append(entries, SpilledEntry(ifd, items[1], w.data, offset)))

Pass1(ifd, items, offset, entries) ==
    IF items = <<>> THEN [ok |-> TRUE, offset |-> offset, entries |-> entries]
    ELSE Pass1Item(ifd, items, offset, entries,
                   write(ifd.endian, ifd.tagtype[items[1].tag], items[1].val.e))

\* index of the StripOffsets entry, 0 when there is none
StripIndex(entries) ==
    IF \E i \in 1..Len(entries) : entries[i].tag = STRIPOFFSETS
    THEN CHOOSE i \in 1..Len(entries) : entries[i].tag = STRIPOFFSETS
    ELSE 0

Shifted(old, offset) == [i \in 1..Len(old) |-> IntAdd(old[i], I(offset))]

PatchedData(e, w) == [ok |-> w.ok, e |-> [e EXCEPT !.data = w.data]]

PatchedValue(ifd, e, v) ==
    IF CanPack(SlotFmt(ifd.bigtiff), v)
    THEN [ok |-> TRUE, e |-> [e EXCEPT !.value = pack(ifd.endian, SlotFmt(ifd.bigtiff), v)]]
    ELSE [ok |-> FALSE, e |-> e]

\* "update strip offset data to point beyond auxiliary data"
PatchStrip(ifd, e, offset) ==
    IF e.data # <<>>
    THEN IF e.typ \notin BasicTypes THEN [ok |-> FALSE, e |-> e]
         ELSE PatchedData(e, write(ifd.endian, e.typ,
                                   Shifted(handler(ifd.endian, e.typ, e.data).e, offset)))
    ELSE PatchedValue(ifd, e,
                      IntAdd(unpack(ifd.endian, SlotFmt(ifd.bigtiff), e.value), I(offset)))

EntryBytes(ifd, e) ==
    pack(ifd.endian, "H", I(e.tag)) \o pack(ifd.endian, "H", I(e.typ))
    \o pack(ifd.endian, SlotFmt(ifd.bigtiff), I(e.count)) \o e.value

AuxBytesUnpadded(e) == e.data

AuxBytes(e) == e.data \o (IF Len(e.data) % 2 = 1 THEN <<0>> ELSE <<>>)

WithPatch(p1, si, ps) ==
    [ok |-> ps.ok, end |-> p1.offset,
     entries |-> IF ps.ok THEN [p1.entries EXCEPT ![si] = ps.e] ELSE p1.entries]

PatchedAt(ifd, p1, si) ==
    IF ~p1.ok \/ si = 0 THEN [ok |-> p1.ok, end |-> p1.offset, entries |-> p1.entries]
    ELSE WithPatch(p1, si, PatchStrip(ifd, p1.entries[si], p1.offset))

Patched(ifd, p1) == PatchedAt(ifd, p1, StripIndex(p1.entries))

\* the entries of tobytes(offset) after the StripOffsets patch
Entries(ifd, offset) ==
    Patched(ifd, Pass1(ifd, SerializedItems(ifd),
                       offset + CountSize(ifd.bigtiff)
                       + Len(ifd.tags_v2) * EntrySize(ifd.bigtiff) + SlotSize(ifd.bigtiff),
                       <<>>))

\* passes 2 and 3 of tobytes
Block(ifd, es) ==
    IF ~es.ok THEN Fail
    ELSE Done(pack(ifd.endian, IF ifd.bigtiff THEN "Q" ELSE "H", I(Len(ifd.tags_v2)))
              \o Concat([i \in 1..Len(es.entries) |-> EntryBytes(ifd, es.entries[i])])
              \o pack(ifd.endian, SlotFmt(ifd.bigtiff), I(0))
              \o Concat([i \in 1..Len(es.entries) |-> AuxBytes(es.entries[i])]))

\* tobytes(offset): ok and the block, or ok = FALSE when it raises
tobytes(ifd, offset) == Block(ifd, Entries(ifd, offset))

\* ------------------------------------------------------------------------
\* load
\* ------------------------------------------------------------------------

\* fp.read(size) at position pos (from 0) of the stream
read(fp, pos, size) ==
    IF pos >= Len(fp) \/ size <= 0 THEN <<>>
    ELSE SubSeq(fp, pos + 1, IF pos + size > Len(fp) THEN Len(fp) ELSE pos + size)

\* ImageFile._safe_read(fp, size): the bytes that are there
safe_read(fp, pos, size) == read(fp, pos, size)

\* the four fields of a raw entry of the table
RawEntry(ifd, raw) ==
    [tag |-> IntOfMag(unpack(ifd.endian, "H", SubSeq(raw, 1, 2)).m),
     typ |-> IntOfMag(unpack(ifd.endian, "H", SubSeq(raw, 3, 4)).m),
     count |-> PosOf(unpack(ifd.endian, SlotFmt(ifd.bigtiff),
                            SubSeq(raw, 5, 4 + SlotSize(ifd.bigtiff)))),
     slot |-> SubSeq(raw, 5 + SlotSize(ifd.bigtiff), EntrySize(ifd.bigtiff))]

PayloadSize(e) == e.count * (IF e.typ \in LoadTypes THEN UnitSize(e.typ) ELSE 0)

\* the payload of an entry: read at its offset, or the head of the slot
Payload(ifd, fp, e) ==
    IF PayloadSize(e) > SlotSize(ifd.bigtiff)
    THEN safe_read(fp, PosOf(unpack(ifd.endian, SlotFmt(ifd.bigtiff), e.slot)),
                   PayloadSize(e))
    ELSE SubSeq(e.slot, 1, PayloadSize(e))

\* the directory after an entry with payload data
WithEntry(ifd, e, data) ==
    IF e.typ \in LoadTypes /\ Len(data) = PayloadSize(e) /\ data # <<>>
    THEN [ifd EXCEPT !.tagdata = Put(ifd.tagdata, e.tag, data),
                     !.tagtype = Put(ifd.tagtype, e.tag, e.typ)]
    ELSE ifd

\* the loop of load over the entries left, from stream position pos; eof is
\* set when _ensure_read raised OSError
RECURSIVE LoadEntries(_, _, _, _)
LoadEntry(ifd, fp, pos, left, raw) ==
    IF Len(raw) # EntrySize(ifd.bigtiff)
    THEN [ifd |-> ifd, pos |-> pos + Len(raw), eof |-> TRUE]
    ELSE LoadEntries(WithEntry(ifd, RawEntry(ifd, raw), Payload(ifd, fp, RawEntry(ifd, raw))),
                     fp, pos + EntrySize(ifd.bigtiff), left - 1)

LoadEntries(ifd, fp, pos, left) ==
    IF left = 0 THEN [ifd |-> ifd, pos |-> pos, eof |-> FALSE]
    ELSE LoadEntry(ifd, fp, pos, left, read(fp, pos, EntrySize(ifd.bigtiff)))

\* load(fp) that leaves self.next as it was
loadKeepNext(ifd, fp, pos) ==
    IF Len(read(fp, pos, CountSize(ifd.bigtiff))) # CountSize(ifd.bigtiff)
    THEN [reset(ifd) EXCEPT !.offset = pos]
    ELSE LoadEntries([reset(ifd) EXCEPT !.offset = pos], fp, pos + CountSize(ifd.bigtiff),
                     PosOf(unpack(ifd.endian, IF ifd.bigtiff THEN "Q" ELSE "H",
                                  read(fp, pos, CountSize(ifd.bigtiff))))).ifd

\* the end of load: the next-IFD slot after the entries
LoadNext(r, fp, rawx) ==
    IF r.eof THEN [ifd |-> r.ifd, pos |-> r.pos]
    ELSE IF Len(rawx) # SlotSize(r.ifd.bigtiff)
    THEN [ifd |-> r.ifd, pos |-> r.pos + Len(rawx)]
    ELSE [ifd |-> [r.ifd EXCEPT !.next = unpack(r.ifd.endian, SlotFmt(r.ifd.bigtiff), rawx)],
          pos |-> r.pos + Len(rawx)]

LoadTable(fp, r) == LoadNext(r, fp, read(fp, r.pos, SlotSize(r.ifd.bigtiff)))

\* load from the tag count on
LoadCount(i0, fp, pos, rawn) ==
    IF Len(rawn) # CountSize(i0.bigtiff) THEN [ifd |-> i0, pos |-> pos + Len(rawn)]
    ELSE LoadTable(fp, LoadEntries(i0, fp, pos + CountSize(i0.bigtiff),
                                   PosOf(unpack(i0.endian, IF i0.bigtiff THEN "Q" ELSE "H",
                                                rawn))))

\* load(fp) with the stream at position pos: the directory and fp.tell()
\* after it
loadw(ifd, fp, pos) ==
    LoadCount([reset(ifd) EXCEPT !.offset = pos], fp, pos,
              read(fp, pos, CountSize(ifd.bigtiff)))

\* load(fp) with the stream at position pos
load(ifd, fp, pos) == loadw(ifd, fp, pos).ifd

\* fp.tell() after load(fp) with the stream at position pos
load_tell(ifd, fp, pos) == loadw(ifd, fp, pos).pos

\* ------------------------------------------------------------------------
\* State
\* ------------------------------------------------------------------------

VARIABLES
    ifd,    \* an ImageFileDirectory_v2
    out,    \* the outcome of the last tobytes(base) call on ifd, if any
    fp,     \* the bytes of the stream or file at hand
    pos,    \* the position fp is at
    rd,     \* a TiffImageFile reading fp, its directory tag_v2 being ifd
    wr,     \* an AppendingTiffWriter writing fp
    last,   \* the last operation and its arguments
    ops     \* number of operations made so far, where they are counted

vars == <<ifd, out, fp, pos, rd, wr, last, ops>>

NoOut == [st |-> "none", base |-> 0, data |-> <<>>]

\* no reader, no writer
NoReader == [open |-> FALSE]
NoWriter == [open |-> FALSE]
NoValue == Tuple(<<>>)
Op(name, tag, value, fresh) ==
    [op |-> name, tag |-> tag, value |-> value, fresh |-> fresh]
NoOp == Op("init", 0, NoValue, FALSE)

\* _save: ImageFileDirectory_v2(prefix=prefix), then ifd._bigtiff = True
\* for encoderinfo big_tiff
NewIfd(prefix, big_tiff) ==
    [IfdInit(II \o <<42, 0, 0, 0, 0, 0>>, prefix) EXCEPT !.bigtiff = big_tiff]

\* what ifd[tag] returns, without changing ifd
ViewValue(d, t) == DictGet(getitem(d, t).tags_v2, t)

\* the directory as a set of (id, type, value); the values of StripOffsets
\* are left out, tobytes relocates them
TagSet(d) ==
    { <<t, d.tagtype[t], IF t = STRIPOFFSETS THEN NoValue ELSE ViewValue(d, t)>> :
        t \in IfdKeys(d) }

\* what is kept of a call r = tobytes(base)
OutOf(r, base) ==
    [st |-> IF r.ok THEN "ok" ELSE "raised", base |-> base, data |-> r.data]

\* the stream holding a block written at position base
StreamAt(base, data) == Zeros(base) \o data

\* ------------------------------------------------------------------------
\* The tag directory a caller fills: set / delete / tobytes, any number of
\* times in any order
\* ------------------------------------------------------------------------

IfdTags == {IMAGEWIDTH, STRIPOFFSETS, 65000}

IfdValues ==
    { Scalar(I(1)), Scalar(I(70000)),
      Tuple(<<I(1), I(2), I(3)>>),
      Scalar(PyBytes(<<97, 98, 99, 100, 101>>)) }

BaseOffsets == {0, 8, 9}

\* the assignments d[tag] = value a caller makes: any value to a tag of
\* IfdTags, and a byte string to a private tag that sorts before 65000
IfdInputs ==
    (IfdTags \X IfdValues) \cup {<<64000, Scalar(PyBytes(<<97, 98, 99, 100, 101>>))>>}

IfdAllTags == {i[1] : i \in IfdInputs}

InitIfd ==
    /\ \E prefix \in {II, MM}, big_tiff \in BOOLEAN : ifd = NewIfd(prefix, big_tiff)
    /\ out = NoOut
    /\ fp = <<>>
    /\ pos = 0
    /\ last = NoOp
    /\ ops = 0
    /\ rd = NoReader
    /\ wr = NoWriter

SetItem(tag, value) ==
    /\ ifd' = setitem(ifd, tag, value)
    /\ out' = NoOut
    /\ UNCHANGED <<fp, pos, last, ops, rd, wr>>

DelItem(tag) ==
    /\ tag \in IfdKeys(ifd)
    /\ ifd' = delitem(ifd, tag)
    /\ out' = NoOut
    /\ UNCHANGED <<fp, pos, last, ops, rd, wr>>

ToBytes(base) ==
    /\ out' = OutOf(tobytes(ifd, base), base)
    /\ UNCHANGED <<ifd, fp, pos, last, ops, rd, wr>>

NextIfd ==
    \/ \E i \in IfdInputs : SetItem(i[1], i[2])
    \/ \E tag \in IfdAllTags : DelItem(tag)
    \/ \E base \in BaseOffsets : ToBytes(base)

SpecIfd == InitIfd /\ [][NextIfd]_vars

\* The entry table of a serialized block, read back from its bytes: for each
\* entry its tag id, type id, count, payload size and value slot.
TableLen(d, data) ==
    PosOf(unpack(d.endian, IF d.bigtiff THEN "Q" ELSE "H",
                 SubSeq(data, 1, CountSize(d.bigtiff))))

TableEntry(d, data, i) ==
    LET big == d.bigtiff
        raw == SubSeq(data, CountSize(big) + (i - 1) * EntrySize(big) + 1,
                      CountSize(big) + i * EntrySize(big))
        typ == IntOfMag(unpack(d.endian, "H", SubSeq(raw, 3, 4)).m)
        count == PosOf(unpack(d.endian, SlotFmt(big), SubSeq(raw, 5, 4 + SlotSize(big))))
        slot == SubSeq(raw, 5 + SlotSize(big), EntrySize(big))
    IN  [tag |-> IntOfMag(unpack(d.endian, "H", SubSeq(raw, 1, 2)).m),
         typ |-> typ, count |-> count,
         size |-> IF typ \in LoadTypes THEN count * UnitSize(typ) ELSE 0,
         slot |-> slot,
         off |-> PosOf(unpack(d.endian, SlotFmt(big), slot))]

Table(d, data) == [i \in 1..TableLen(d, data) |-> TableEntry(d, data, i)]

\* the entries whose payload is in the auxiliary area
Spilled(d, tb) == SelectSeq(tb, LAMBDA e : e.size > SlotSize(d.bigtiff))

\* first position past the table and the next-IFD slot of a block at base
TableEnd(d, base, n) ==
    base + CountSize(d.bigtiff) + n * EntrySize(d.bigtiff) + SlotSize(d.bigtiff)

AscendingTable(d, base, data) ==
    LET tb == Table(d, data)
        sp == Spilled(d, tb)
    IN  /\ Len(tb) = Len(d.tags_v2)
        /\ \A i \in 1..Len(tb) : \A j \in 1..Len(tb) : i < j => tb[i].tag < tb[j].tag
        /\ \A i \in 1..Len(sp) :
              /\ sp[i].off >= TableEnd(d, base, Len(tb))
              /\ sp[i].off + sp[i].size <= base + Len(data)
        /\ \A i \in 1..Len(sp) : \A j \in 1..Len(sp) :
              i < j => sp[i].off + sp[i].size <= sp[j].off

\* C6: the entry table emitted by tobytes lists the tags in strictly
\* ascending tag id, whatever the order in which they were set, deleted and
\* set again, and the auxiliary payloads follow the table in that same order.
C6_TableAscending == out.st = "ok" => AscendingTable(ifd, out.base, out.data)

\* a block with two payloads in the auxiliary area, serialized from a
\* directory whose tags were not set in ascending order
C6_Witness ==
    /\ out.st = "ok"
    /\ Len(Spilled(ifd, Table(ifd, out.data))) >= 2
    /\ ifd.tags_v2 # sorted(ifd.tags_v2)

\* The directory holding tag t alone, a blank directory of the same format,
\* and the value of t read back from the serialized directory.
OnlyTag(d, t) ==
    [d EXCEPT !.tags_v2 = SelectSeq(d.tags_v2, LAMBDA it : it.tag = t),
              !.tagdata = <<>>]

Blank(d) == NewIfd(d.prefix, d.bigtiff)

ReadBack(d, base) == load(Blank(d), StreamAt(base, tobytes(d, base).data), base)

IntTypes == {SHORT, SIGNED_SHORT, LONG, SIGNED_LONG}

AutoTypedInt(d, t) ==
    /\ DictHas(d.tags_v2, t)
    /\ lookup(t).type = 0
    /\ d.tagtype[t] \in IntTypes
    /\ AllKind(DictGet(d.tags_v2, t).e, "int")

\* C8: after any sequence of set calls on an auto-typed integer tag, the
\* recorded type can represent the current value: the directory serializes
\* and reading it back returns the current value.
C8_TypeHoldsValue ==
    \A t \in IfdTags :
        AutoTypedInt(ifd, t) =>
            /\ tobytes(OnlyTag(ifd, t), 0).ok
            /\ t \in IfdKeys(ReadBack(OnlyTag(ifd, t), 0))
            /\ ViewValue(ReadBack(OnlyTag(ifd, t), 0), t) = DictGet(ifd.tags_v2, t)

\* ------------------------------------------------------------------------
\* Type inference: one set of integers on a tag with no type on record and
\* none in the tag dictionary
\* ------------------------------------------------------------------------

InferLen == 2

InferTags == {65000, 65001}

\* integers at and around the limits of the four integer types
InferInts ==
    { I(0), I(1), I(-1), I(32767), I(32768), I(-32767), I(-32768),
      I(65535), I(65536), I(-65536),
      PyInt(FALSE, <<255, 255, 255, 127>>), PyInt(FALSE, HalfPow256(4)),
      PyInt(TRUE, HalfPow256(4)),
      PyInt(FALSE, <<255, 255, 255, 255>>), PyInt(FALSE, Pow256(4)),
      PyInt(FALSE, <<1>> \o Zeros(3) \o <<1>>) }

SeqsUpTo(S, n) == UNION {[1..k -> S] : k \in 1..n}

InitInfer ==
    /\ ifd = NewIfd(II, FALSE)
    /\ out = NoOut
    /\ fp = <<>>
    /\ pos = 0
    /\ last = NoOp
    /\ ops = 0
    /\ rd = NoReader
    /\ wr = NoWriter

\* ifd[tag] = values, on a new directory
SetFresh(tag, es) ==
    /\ DOMAIN ifd.tagtype = {}
    /\ ifd' = setitem(ifd, tag, IF Len(es) = 1 THEN Scalar(es[1]) ELSE Tuple(es))
    /\ last' = Op("set", tag, Tuple(es), TRUE)
    /\ UNCHANGED <<out, fp, pos, ops, rd, wr>>

NextInfer == \E tag \in InferTags, es \in SeqsUpTo(InferInts, InferLen) : SetFresh(tag, es)

SpecInfer == InitInfer /\ [][NextInfer]_vars

\* lo <= v < hi and lo < v < hi on Python ints
InHalfOpen(v, lo, hi) == ~IntLt(v, lo) /\ IntLt(v, hi)
InOpen(v, lo, hi) == IntLt(lo, v) /\ IntLt(v, hi)

Two16 == PyInt(FALSE, Pow256(2))
Two15 == PyInt(FALSE, HalfPow256(2))
MinusTwo15 == PyInt(TRUE, HalfPow256(2))
Two32 == PyInt(FALSE, Pow256(4))

All(es, P(_)) == \A i \in 1..Len(es) : P(es[i])

\* the type the claim gives a tuple of integers
ClaimedType(es) ==
    IF All(es, LAMBDA v : InHalfOpen(v, I(0), Two16)) THEN SHORT
    ELSE IF All(es, LAMBDA v : InOpen(v, MinusTwo15, Two15)) THEN SIGNED_SHORT
    ELSE IF All(es, LAMBDA v : InHalfOpen(v, I(0), Two32)) THEN LONG
    ELSE SIGNED_LONG

\* the same with LONG for every tuple of non-negative integers
AmendedType(es) ==
    IF All(es, LAMBDA v : InHalfOpen(v, I(0), Two16)) THEN SHORT
    ELSE IF All(es, LAMBDA v : InOpen(v, MinusTwo15, Two15)) THEN SIGNED_SHORT
    ELSE IF All(es, LAMBDA v : ~IntLt(v, I(0))) THEN LONG
    ELSE SIGNED_LONG

FreshIntSet == last.op = "set" /\ last.fresh

\* C7 as stated: integers set on a tag with no type on record and none in
\* the dictionary get SHORT if all are in [0, 2^16), else SSHORT if all are
\* in (-2^15, 2^15), else LONG if all are in [0, 2^32), else SLONG.
C7_InferredType_Original ==
    FreshIntSet => ifd.tagtype[last.tag] = ClaimedType(last.value.e)

\* C7 amended: SHORT if all are in [0, 2^16), else SSHORT if all are in
\* (-2^15, 2^15), else LONG if all are >= 0 (2^32 and above included),
\* else SLONG.
C7_InferredType ==
    FreshIntSet => ifd.tagtype[last.tag] = AmendedType(last.value.e)

\* a set of two integers, one of them 2^32 or more, typed LONG
C7_Witness ==
    /\ FreshIntSet
    /\ Len(last.value.e) = 2
    /\ \E i \in 1..2 : ~IntLt(last.value.e[i], Two32)
    /\ ifd.tagtype[last.tag] = LONG

\* ------------------------------------------------------------------------
\* load on crafted directories, then get / tobytes on the loaded directory
\* ------------------------------------------------------------------------

MaxCraft == 2

\* the kinds of entry a crafted directory is made of: a SHORT in the slot,
\* a BYTE payload at an offset, a type id outside the registry, a payload
\* of which the stream holds the first bytes only, a payload at an offset
\* past the end of the stream, an entry with count 0
CraftKinds == {"inline", "spilled", "unknown", "cut", "beyond", "empty"}

CraftPayload == <<11, 12, 13, 14, 15, 16, 17, 18, 19, 20>>

CraftNext == I(4660)

CraftTag(i) == 1000 + i

NumSpilled(kinds, n) == Cardinality({j \in 1..n : kinds[j] = "spilled"})

\* the length of the crafted stream
CraftLen(d, base, kinds) ==
    TableEnd(d, base, Len(kinds)) + Len(CraftPayload) * NumSpilled(kinds, Len(kinds))

CraftEntry(d, base, kinds, i) ==
    LET fmt == SlotFmt(d.bigtiff)
        none == Zeros(SlotSize(d.bigtiff))
        e == CASE kinds[i] = "inline" ->
                    [typ |-> SHORT, count |-> 1,
                     value |-> ljust(pack(d.endian, "H", I(7)), SlotSize(d.bigtiff))]
               [] kinds[i] = "spilled" ->
                    [typ |-> BYTE, count |-> Len(CraftPayload),
                     value |-> pack(d.endian, fmt,
                                    I(TableEnd(d, base, Len(kinds))
                                      + Len(CraftPayload) * NumSpilled(kinds, i - 1)))]
               [] kinds[i] = "unknown" -> [typ |-> 99, count |-> 1, value |-> none]
               [] kinds[i] = "cut" ->
                    [typ |-> BYTE, count |-> Len(CraftPayload),
                     value |-> pack(d.endian, fmt, I(CraftLen(d, base, kinds) - 2))]
               [] kinds[i] = "beyond" ->
                    [typ |-> BYTE, count |-> Len(CraftPayload),
                     value |-> pack(d.endian, fmt, I(CraftLen(d, base, kinds) + 50))]
               [] kinds[i] = "empty" -> [typ |-> SHORT, count |-> 0, value |-> none]
    IN  EntryBytes(d, [tag |-> CraftTag(i), typ |-> e.typ, count |-> e.count,
                       value |-> e.value])

\* a stream holding at base a directory of the given kinds of entry
Crafted(d, base, kinds) ==
    Zeros(base)
    \o pack(d.endian, IF d.bigtiff THEN "Q" ELSE "H", I(Len(kinds)))
    \o Concat([i \in 1..Len(kinds) |-> CraftEntry(d, base, kinds, i)])
    \o pack(d.endian, SlotFmt(d.bigtiff), CraftNext)
    \o Concat([i \in 1..NumSpilled(kinds, Len(kinds)) |-> CraftPayload])

InitLoad ==
    /\ \E prefix \in {II, MM}, big_tiff \in BOOLEAN, base \in BaseOffsets,
          kinds \in SeqsUpTo(CraftKinds, MaxCraft) :
          /\ ifd = NewIfd(prefix, big_tiff)
          /\ fp = Crafted(NewIfd(prefix, big_tiff), base, kinds)
          /\ pos = base
    /\ out = NoOut
    /\ last = NoOp
    /\ ops = 0
    /\ rd = NoReader
    /\ wr = NoWriter

\* ifd.load(fp)
Load ==
    /\ last.op = "init"
    /\ ifd' = load(ifd, fp, pos)
    /\ pos' = load_tell(ifd, fp, pos)
    /\ last' = Op("load", 0, NoValue, FALSE)
    /\ out' = NoOut
    /\ UNCHANGED <<fp, ops, rd, wr>>

\* ifd[tag]
GetItem(tag) ==
    /\ tag \in IfdKeys(ifd)
    /\ ~DictHas(ifd.tags_v2, tag)
    /\ ifd' = getitem(ifd, tag)
    /\ last' = Op("get", tag, NoValue, FALSE)
    /\ out' = NoOut
    /\ UNCHANGED <<fp, pos, ops, rd, wr>>

\* ifd.tobytes(base) on the loaded directory
ToBytesLoaded(base) ==
    /\ last.op # "init"
    /\ out' = OutOf(tobytes(ifd, base), base)
    /\ UNCHANGED <<ifd, fp, pos, last, ops, rd, wr>>

NextLoad ==
    \/ Load
    \/ \E i \in 1..MaxCraft : GetItem(CraftTag(i))
    \/ \E base \in BaseOffsets : ToBytesLoaded(base)

SpecLoad == InitLoad /\ [][NextLoad]_vars

\* C5: in any lifecycle state of the directory and for every base offset,
\* load at the base offset on the bytes produced by tobytes(base offset)
\* yields exactly the tag set the directory held, as a set of (id, type,
\* value), StripOffsets values aside.
C5_RoundTrip ==
    out.st = "ok" =>
        TagSet(load(Blank(ifd), StreamAt(out.base, out.data), out.base)) = TagSet(ifd)

\* The directory at ifd.offset as the stream has it, entry by entry.
Stored(d, e) ==
    /\ e.tag \in DOMAIN d.tagdata
    /\ d.tagtype[e.tag] = e.typ
    /\ d.tagdata[e.tag] =
          IF e.size > SlotSize(d.bigtiff) THEN read(fp, e.off, e.size)
          ELSE SubSeq(e.slot, 1, e.size)

BadEntry(d, e) ==
    \/ e.typ \notin LoadTypes
    \/ e.size > SlotSize(d.bigtiff) /\ Len(read(fp, e.off, e.size)) # e.size

LoadedTable == Table(ifd, SubSeq(fp, ifd.offset + 1, Len(fp)))

NextInStream ==
    unpack(ifd.endian, SlotFmt(ifd.bigtiff),
           read(fp, TableEnd(ifd, ifd.offset, Len(LoadedTable)) - SlotSize(ifd.bigtiff),
                SlotSize(ifd.bigtiff)))

JustLoaded == last.op = "load"

\* C9 as stated: load continues past a bad entry; an entry whose type id is
\* not in the registry or whose payload cannot be read in full is left out,
\* every other entry is stored with its type and raw payload, and the
\* directory's next offset is read and recorded.
C9_LoadSkipsBad_Original ==
    JustLoaded =>
        /\ \A i \in 1..Len(LoadedTable) :
              IF BadEntry(ifd, LoadedTable[i])
              THEN LoadedTable[i].tag \notin IfdKeys(ifd)
              ELSE Stored(ifd, LoadedTable[i])
        /\ ifd.next = NextInStream

\* C9 amended: an entry whose type id is not in the registry, whose payload
\* cannot be read in full, or whose payload is empty (count 0) is left out;
\* every other entry is stored with its type and raw payload, and the
\* directory's next offset is read and recorded.
C9_LoadSkipsBad ==
    JustLoaded =>
        /\ \A i \in 1..Len(LoadedTable) :
              IF BadEntry(ifd, LoadedTable[i]) \/ LoadedTable[i].size = 0
              THEN LoadedTable[i].tag \notin IfdKeys(ifd)
              ELSE Stored(ifd, LoadedTable[i])
        /\ ifd.next = NextInStream

\* a loaded directory whose first entry was bad and left out and whose
\* second entry is stored, with the next offset recorded
C9_Witness ==
    /\ JustLoaded
    /\ Len(LoadedTable) = 2
    /\ BadEntry(ifd, LoadedTable[1])
    /\ IfdKeys(ifd) = {LoadedTable[2].tag}
    /\ ifd.next = CraftNext

\* ------------------------------------------------------------------------
\* Directories built from a header: by the reader from the head of a file,
\* and by tobytes for a nested directory from the header _get_ifh makes
\* ------------------------------------------------------------------------

BigPrefixes == {MM \o <<0, 43>>, II \o <<43, 0>>}

HdrOffsets == {0, 8, 16, 258}

HdrEndian(prefix4) == IF SubSeq(prefix4, 1, 2) = MM THEN ">" ELSE "<"

\* the 8-byte and the 16-byte header layouts
Header8(prefix4, off) == prefix4 \o pack(HdrEndian(prefix4), "L", I(off))
Header16(prefix4, off) ==
    prefix4 \o pack(HdrEndian(prefix4), "H", I(8)) \o pack(HdrEndian(prefix4), "H", I(0))
    \o pack(HdrEndian(prefix4), "Q", I(off))

Headers ==
    {Header8(p, off) : p \in PREFIXES, off \in HdrOffsets}
    \cup {Header16(p, off) : p \in PREFIXES, off \in HdrOffsets}

Built(name, parent, outcome) == [op |-> name, parent |-> parent, outcome |-> outcome]

InitHdr ==
    /\ fp \in Headers
    /\ ifd = NewIfd(II, FALSE)
    /\ pos = 0
    /\ out = NoOut
    /\ last = NoOp
    /\ ops = 0
    /\ rd = NoReader
    /\ wr = NoWriter

\* ImageFileDirectory_v2(ifh) with the header at hand
Construct ==
    /\ last.op = "init"
    /\ ifd' = IF InitOutcome(fp, NoPrefix) = "ok" THEN IfdInit(fp, NoPrefix) ELSE ifd
    /\ last' = Built("construct", ifd, InitOutcome(fp, NoPrefix))
    /\ UNCHANGED <<fp, pos, out, ops, rd, wr>>

\* _save: ImageFileDirectory_v2(prefix=prefix) and the big_tiff flag
SaveIfd(prefix, big_tiff) ==
    /\ last.op = "init"
    /\ ifd' = NewIfd(prefix, big_tiff)
    /\ last' = Built("save", ifd, "ok")
    /\ UNCHANGED <<fp, pos, out, ops, rd, wr>>

\* tobytes on a nested directory: ImageFileDirectory_v2(self._get_ifh())
Nested ==
    /\ last.op \in {"construct", "save"}
    /\ last.outcome = "ok"
    /\ fp' = get_ifh(ifd)
    /\ ifd' = IF InitOutcome(get_ifh(ifd), NoPrefix) = "ok"
              THEN IfdInit(get_ifh(ifd), NoPrefix) ELSE ifd
    /\ last' = Built("nested", ifd, InitOutcome(get_ifh(ifd), NoPrefix))
    /\ UNCHANGED <<pos, out, ops, rd, wr>>

NextHdr ==
    \/ Construct
    \/ \E prefix \in {II, MM}, big_tiff \in BOOLEAN : SaveIfd(prefix, big_tiff)
    \/ Nested

SpecHdr == InitHdr /\ [][NextHdr]_vars

\* a header of the layout its prefix announces
WellFormed(ifh) ==
    \/ SubSeq(ifh, 1, 4) \in BigPrefixes /\ Len(ifh) = 16
    \/ SubSeq(ifh, 1, 4) \in PREFIXES \ BigPrefixes /\ Len(ifh) = 8

\* the first-IFD offset a well-formed header holds
HeaderOffset(ifh) ==
    IF Len(ifh) = 16 THEN unpack(HdrEndian(ifh), "Q", SubSeq(ifh, 9, 16))
    ELSE unpack(HdrEndian(ifh), "L", SubSeq(ifh, 5, 8))

\* C10: a directory constructed from a header is BigTIFF, its first-IFD
\* offset read from header bytes 8..15, exactly when the header starts with
\* MM 00 2B or II 2B 00, and Classic for the four other prefixes; a
\* directory built from the header another directory's _get_ifh produces has
\* that directory's byte order and BigTIFF flag.
C10_BigTiffDetection ==
    /\ last.op = "construct" /\ WellFormed(fp) =>
          /\ last.outcome = "ok"
          /\ ifd.bigtiff = (SubSeq(fp, 1, 4) \in BigPrefixes)
          /\ ifd.next = HeaderOffset(fp)
    /\ last.op = "nested" =>
          /\ last.outcome = "ok"
          /\ ifd.endian = last.parent.endian
          /\ ifd.bigtiff = last.parent.bigtiff

\* ------------------------------------------------------------------------
\* TiffImageFile: _open, _setup, _seek, seek, n_frames, tell
\* ------------------------------------------------------------------------

Two63 == PyInt(FALSE, HalfPow256(8))

\* v in a list
InSeq(v, sq) == \E i \in 1..Len(sq) : sq[i] = v

\* _n_frames is None
NoCount == 0

\* The reader r with its directory tag_v2, the position of the stream, the
\* exception a call raised ("" for none) and the value it returned.
World(r, tag, p) == [rd |-> r, tag |-> tag, pos |-> p, err |-> "", ret |-> -1]

Raise(w, err) == [w EXCEPT !.err = err]

WithTag(w, tag) == [w EXCEPT !.tag = tag]

\* tag_v2.get(tag) is an int, and its value as a number
IsIntTag(d, tag) ==
    /\ tag \in IfdKeys(d)
    /\ ~ViewValue(d, tag).tup
    /\ ViewValue(d, tag).e[1].k = "int"

TagInt(d, tag) == PosOf(ViewValue(d, tag).e[1])

\* the directory after tag_v2.get(tag) for each of the tags, which decodes
\* those it holds
RECURSIVE Got(_, _)
Got(d, tags) ==
    IF tags = <<>> THEN d
    ELSE Got(IF tags[1] \in IfdKeys(d) THEN getitem(d, tags[1]) ELSE d, Tail(tags))

\* self._planar_configuration = self.tag_v2.get(PLANAR_CONFIGURATION, 1)
PlanarOf(d) ==
    IF IsIntTag(d, PLANAR_CONFIGURATION) THEN TagInt(d, PLANAR_CONFIGURATION) ELSE 1

Lesser(a, b) == IF a < b THEN a ELSE b

\* ImageFile._Tile(compression, bbox, offset, args) without its decoder
\* arguments
Tile_(x, y, x1, y1, offset) == [bbox |-> <<x, y, x1, y1>>, offset |-> offset]

\* `for offset in offsets:` with the cursor at (x, y)
RECURSIVE TileLoop(_, _, _, _, _, _, _)
TileLoop(offsets, w, h, xsize, ysize, x, y) ==
    IF offsets = <<>> THEN <<>>
    ELSE <<Tile_(x, y, Lesser(x + w, xsize), Lesser(y + h, ysize), offsets[1])>>
         \o TileLoop(Tail(offsets), w, h, xsize, ysize,
                     IF x + w >= xsize THEN 0 ELSE x + w,
                     IF x + w >= xsize
                     THEN (IF y + h >= ysize THEN 0 ELSE y + h)
                     ELSE y)

\* "Every tile covers the image. Only use the last offset"
TilePlan(offsets, w, h, xsize, ysize, planar) ==
    TileLoop(IF w = xsize /\ h = ysize /\ planar # 2
             THEN SubSeq(offsets, Len(offsets), Len(offsets)) ELSE offsets,
             w, h, xsize, ysize, 0, 0)

Planned(w, offsets, tw, h) ==
    [w EXCEPT !.rd.tile = TilePlan(offsets, tw, h, PosOf(w.rd.size[1]),
                                   PosOf(w.rd.size[2]), PlanarOf(w.tag))]

\* the striped image: h = self.tag_v2.get(ROWSPERSTRIP, ysize); w = xsize
setup_strips(w) ==
    IF ROWSPERSTRIP \in IfdKeys(w.tag) /\ ~IsIntTag(w.tag, ROWSPERSTRIP)
    THEN Raise(w, "TypeError")
    ELSE Planned(w, ViewValue(w.tag, STRIPOFFSETS).e, PosOf(w.rd.size[1]),
                 IF ROWSPERSTRIP \in IfdKeys(w.tag) THEN TagInt(w.tag, ROWSPERSTRIP)
                 ELSE PosOf(w.rd.size[2]))

\* the tiled image
setup_tiled(w) ==
    IF ~IsIntTag(w.tag, TILEWIDTH) \/ ~IsIntTag(w.tag, TILELENGTH)
    THEN Raise(w, "ValueError")
    ELSE Planned(w, ViewValue(w.tag, TILEOFFSETS).e, TagInt(w.tag, TILEWIDTH),
                 TagInt(w.tag, TILELENGTH))

\* _setup from the tile descriptors on, for an uncompressed image: the
\* tiles of its strips or tiles, SyntaxError when it has neither
setup_tiles(w) ==
    IF STRIPOFFSETS \in IfdKeys(w.tag)
    THEN setup_strips(WithTag(w, Got(w.tag, <<PLANAR_CONFIGURATION, STRIPOFFSETS, ROWSPERSTRIP>>)))
    ELSE IF TILEOFFSETS \in IfdKeys(w.tag)
    THEN setup_tiled(WithTag(w, Got(w.tag, <<PLANAR_CONFIGURATION, TILEOFFSETS, TILEWIDTH, TILELENGTH>>)))
    ELSE Raise(w, "SyntaxError")

\* _setup from the size on, both dimensions read
setup_size(w) ==
    LET xsize == DictGet(w.tag.tags_v2, IMAGEWIDTH)
        ysize == DictGet(w.tag.tags_v2, IMAGELENGTH)
    IN  IF xsize.tup \/ ysize.tup \/ xsize.e[1].k # "int" \/ ysize.e[1].k # "int"
        THEN Raise(w, "ValueError")
        ELSE setup_tiles([w EXCEPT !.rd.size = <<xsize.e[1], ysize.e[1]>>])

\* _setup on the current directory: the exceptions it raises on the tags
\* of the model, the image size and the tile offset
setup(w) ==
    IF WMPHOTO \in IfdKeys(w.tag) THEN Raise(w, "OSError")
    ELSE IF IMAGEWIDTH \notin IfdKeys(w.tag) THEN Raise(w, "TypeError")
    ELSE IF IMAGELENGTH \notin IfdKeys(w.tag)
    THEN Raise(WithTag(w, getitem(w.tag, IMAGEWIDTH)), "TypeError")
    ELSE setup_size(WithTag(w, getitem(getitem(w.tag, IMAGEWIDTH), IMAGELENGTH)))

\* self.fp.seek(at); self.tag_v2.load(self.fp)
WithLoad(w, r) == [w EXCEPT !.tag = r.ifd, !.pos = r.pos]
Loaded(w, file, at) == WithLoad(w, loadw(w.tag, file, at))

\* one turn of the while loop of _seek(frame), the directory at __next
\* being loaded in w
Advance(w, fpos, frame) ==
    LET nxt == IF InSeq(w.tag.next, fpos) THEN I(0) ELSE w.tag.next
    IN  [w EXCEPT !.rd.frame_pos = fpos,
                  !.rd.next = nxt,
                  !.rd.n_frames = IF nxt.m = <<>> THEN frame + 1 ELSE @,
                  !.rd.is_animated = IF Len(fpos) = 1 THEN nxt.m # <<>> ELSE @,
                  !.rd.frame = @ + 1]

\* the while loop of _seek(frame)
RECURSIVE SeekLoop(_, _, _)
SeekLoop(w, file, frame) ==
    IF Len(w.rd.frame_pos) > frame THEN w
    ELSE IF w.rd.next.m = <<>> THEN Raise(w, "EOFError")
    ELSE IF ~IntLt(w.rd.next, Two63) THEN Raise(w, "ValueError")
    ELSE SeekLoop(Advance(Loaded(w, file, PosOf(w.rd.next)),
                          Append(w.rd.frame_pos, w.rd.next), frame),
                  file, frame)

\* _seek(frame) after its loop
SeekTo(w, file, frame) ==
    IF w.err # "" THEN w
    ELSE setup([Loaded(w, file, PosOf(w.rd.frame_pos[frame + 1])) EXCEPT
                   !.rd.frame = frame])

\* _seek(frame)
seek_(w, file, frame) == SeekTo(SeekLoop(w, file, frame), file, frame)

\* Image._seek_check(frame): EOFError outside the known sequence, else
\* whether the frame differs from the current one
seek_check(w, frame) ==
    IF frame < 0 \/ (w.rd.n_frames # NoCount /\ frame >= w.rd.n_frames)
    THEN Raise(w, "EOFError")
    ELSE [w EXCEPT !.ret = IF w.rd.frame # frame THEN 1 ELSE 0]

\* seek(frame)
seek(w, file, frame) ==
    IF seek_check(w, frame).err # "" THEN seek_check(w, frame)
    ELSE IF seek_check(w, frame).ret = 0 THEN w
    ELSE seek_(w, file, frame)

\* the loop `while self._n_frames is None: self._seek(self.tell() + 1)`
RECURSIVE CountLoop(_, _)
CountLoop(w, file) ==
    IF w.err # "" \/ w.rd.n_frames # NoCount THEN w
    ELSE CountLoop(seek_(w, file, w.rd.frame + 1), file)

Returning(w, ret) == IF w.err # "" THEN w ELSE [w EXCEPT !.ret = w.rd.n_frames]

\* n_frames after its walk: self.seek(current), return self._n_frames
Restore(w, file, current) ==
    IF w.err # "" THEN w ELSE Returning(seek(w, file, current), 0)

\* the n_frames property
n_frames(w, file) ==
    IF w.rd.n_frames # NoCount THEN [w EXCEPT !.ret = w.rd.n_frames]
    ELSE Restore(CountLoop(seek_(w, file, Len(w.rd.frame_pos)), file), file, w.rd.frame)

\* _open from the header on
OpenWith(file, ifh) ==
    IF InitOutcome(ifh, NoPrefix) # "ok"
    THEN Raise(World(NoReader, NewIfd(II, FALSE), Len(ifh)), InitOutcome(ifh, NoPrefix))
    ELSE seek_(World([open |-> TRUE, first |-> IfdInit(ifh, NoPrefix).next,
                      next |-> IfdInit(ifh, NoPrefix).next, frame |-> -1,
                      frame_pos |-> <<>>, n_frames |-> NoCount, is_animated |-> FALSE,
                      size |-> <<>>, tile |-> <<>>],
                     IfdInit(ifh, NoPrefix), Len(ifh)),
               file, 0)

\* _open
open(file) ==
    OpenWith(file, IF Len(read(file, 0, 8)) >= 3 /\ read(file, 0, 8)[3] = 43
                   THEN read(file, 0, 8) \o read(file, 8, 8) ELSE read(file, 0, 8))

\* ------------------------------------------------------------------------
\* Reading multi-page files: open, then seek and n_frames in any order
\* ------------------------------------------------------------------------

MaxPages == 3

\* a page that is an image of one strip, and one that carries tag 0xBC01
PageKinds == {"img", "wmp"}

PixelData == <<255, 0>>

PageIfd(d0, kind) ==
    LET a == setitem(setitem(setitem(d0, IMAGEWIDTH, Scalar(I(1))),
                             IMAGELENGTH, Scalar(I(1))),
                     STRIPOFFSETS, Tuple(<<I(0)>>))
    IN  IF kind = "wmp" THEN setitem(a, WMPHOTO, Scalar(I(1))) ELSE a

PageLen(d0, kind) == Len(tobytes(PageIfd(d0, kind), 0).data) + Len(PixelData)

RECURSIVE PageOffset(_, _, _)
PageOffset(d0, kinds, i) ==
    IF i = 1 THEN Len(get_ifh(d0))
    ELSE PageOffset(d0, kinds, i - 1) + PageLen(d0, kinds[i - 1])

\* a serialized directory with its next-IFD slot set
SetNext(d0, block, nextv) ==
    LET at == TableEnd(d0, 0, TableLen(d0, block)) - SlotSize(d0.bigtiff)
    IN  SubSeq(block, 1, at) \o pack(d0.endian, SlotFmt(d0.bigtiff), nextv)
        \o SubSeq(block, at + SlotSize(d0.bigtiff) + 1, Len(block))

\* how the chain of a file ends: at 0, at the offset of one of its own
\* IFDs, or at an offset of 2**63
Endings(d0, n) ==
    {[k |-> "end", to |-> 0]} \cup {[k |-> "loop", to |-> j] : j \in 1..n}
    \cup (IF d0.bigtiff THEN {[k |-> "huge", to |-> 0]} ELSE {})

EndingNext(d0, kinds, ending) ==
    CASE ending.k = "end" -> I(0)
      [] ending.k = "loop" -> I(PageOffset(d0, kinds, ending.to))
      [] ending.k = "huge" -> Two63

\* the file: header, then for each page its directory and its pixel data
TiffFile(d0, kinds, ending) ==
    get_ifh(d0)
    \o Concat([i \in 1..Len(kinds) |->
                  SetNext(d0, tobytes(PageIfd(d0, kinds[i]), PageOffset(d0, kinds, i)).data,
                          IF i < Len(kinds) THEN I(PageOffset(d0, kinds, i + 1))
                          ELSE EndingNext(d0, kinds, ending))
                  \o PixelData])

\* what is kept of a call on the reader: its argument, tell() and whether
\* the frame count was known before it, the exception and the value returned
Called(name, arg, before, w) ==
    [op |-> name, arg |-> arg, tell0 |-> before.frame,
     known0 |-> before.n_frames # NoCount, err |-> w.err, ret |-> w.ret]

InitReader ==
    /\ \E prefix \in {II, MM}, big \in BOOLEAN, kinds \in SeqsUpTo(PageKinds, MaxPages) :
          \E ending \in Endings(NewIfd(prefix, big), Len(kinds)) :
              fp = TiffFile(NewIfd(prefix, big), kinds, ending)
    /\ ifd = NewIfd(II, FALSE)
    /\ pos = 0
    /\ out = NoOut
    /\ last = NoOp
    /\ ops = 0
    /\ rd = NoReader
    /\ wr = NoWriter

\* the state after a call that left the reader and its stream as in w
After(w, op) ==
    /\ rd' = w.rd
    /\ ifd' = w.tag
    /\ pos' = w.pos
    /\ last' = op
    /\ UNCHANGED <<fp, out, ops, wr>>

\* TiffImageFile(fp); there is no reader when _open raises
Opened(w, d) == IF w.err = "" THEN w ELSE [World(NoReader, d, w.pos) EXCEPT !.err = w.err]

Open ==
    /\ ~rd.open
    /\ last.op = "init"
    /\ \E w \in {Opened(open(fp), ifd)} : After(w, [op |-> "open", err |-> w.err])

\* im.seek(frame)
Seek(frame) ==
    /\ rd.open
    /\ \E w \in {seek(World(rd, ifd, pos), fp, frame)} :
          After(w, Called("seek", frame, rd, w))

\* im.n_frames
NFrames ==
    /\ rd.open
    /\ \E w \in {n_frames(World(rd, ifd, pos), fp)} :
          After(w, Called("n_frames", 0, rd, w))

NextReader ==
    \/ Open
    \/ \E frame \in (-1)..MaxPages : Seek(frame)
    \/ NFrames

SpecReader == InitReader /\ [][NextReader]_vars

\* The chain of a file as its bytes give it: the format from the header,
\* the offsets of the IFDs met from the first-IFD offset on, following
\* next offsets up to 0, a revisit, or an offset no IFD can be read at.
FileFormat(file) == NewIfd(SubSeq(file, 1, 2), SubSeq(file, 1, 4) \in BigPrefixes)

FileFirst(file) ==
    HeaderOffset(SubSeq(file, 1, IF SubSeq(file, 1, 4) \in BigPrefixes THEN 16 ELSE 8))

DirAt(file, off) == SubSeq(file, PosOf(off) + 1, Len(file))

DirNext(file, off) ==
    unpack(FileFormat(file).endian, SlotFmt(FileFormat(file).bigtiff),
           read(file,
                TableEnd(FileFormat(file), PosOf(off),
                         TableLen(FileFormat(file), DirAt(file, off)))
                - SlotSize(FileFormat(file).bigtiff),
                SlotSize(FileFormat(file).bigtiff)))

RECURSIVE Chain(_, _, _)
Chain(file, off, seen) ==
    IF off.m = <<>> \/ InSeq(off, seen) \/ ~IntLt(off, Two63) \/ PosOf(off) >= Len(file)
    THEN seen
    ELSE Chain(file, DirNext(file, off), Append(seen, off))

ChainOf(file) == Chain(file, FileFirst(file), <<>>)

\* the next offset of the last IFD of the chain
ChainTail(file) == DirNext(file, ChainOf(file)[Len(ChainOf(file))])

Loops(file) == InSeq(ChainTail(file), ChainOf(file))
Ends(file) == ChainTail(file).m = <<>>

DirTags(file, off) ==
    {Table(FileFormat(file), DirAt(file, off))[i].tag :
        i \in 1..TableLen(FileFormat(file), DirAt(file, off))}

\* the IFD is one _setup accepts
ValidPage(file, off) == WMPHOTO \notin DirTags(file, off)

ValidPages(file) == \A i \in 1..Len(ChainOf(file)) : ValidPage(file, ChainOf(file)[i])

\* C2: on a file whose IFD chain loops, reading n_frames terminates and
\* returns the number of distinct IFDs visited before the revisit; the
\* revisit is no error.  (Every IFD of the file being a valid image.)
C2_CycleCount ==
    rd.open /\ last.op = "n_frames" /\ Loops(fp) /\ ValidPages(fp) =>
        /\ last.err = ""
        /\ last.ret = Len(ChainOf(fp))

\* C3: reading n_frames leaves the current frame unchanged: tell() after
\* the read equals tell() before it on every exit path, errors included.
C3_TellRestored == rd.open /\ last.op = "n_frames" => rd.frame = last.tell0

\* C4: for a chain of N IFDs, seek(f) with 0 <= f < N succeeds from any
\* current frame, ends with tell() = f and the IFD at frame_positions[f]
\* loaded, frame_positions[i] being the offset of the i-th IFD of the
\* chain; seek(f) with f >= N, made while the total is unknown, fails with
\* EOFError when the walk meets a next offset of 0.
C4_Seek ==
    rd.open /\ last.op = "seek" =>
        /\ last.arg >= 0 /\ last.arg < Len(ChainOf(fp))
           /\ ValidPage(fp, ChainOf(fp)[last.arg + 1]) =>
              /\ last.err = ""
              /\ rd.frame = last.arg
              /\ Len(rd.frame_pos) > last.arg
              /\ \A i \in 1..Len(rd.frame_pos) : rd.frame_pos[i] = ChainOf(fp)[i]
              /\ ifd.offset = PosOf(rd.frame_pos[last.arg + 1])
        /\ last.arg >= Len(ChainOf(fp)) /\ ~last.known0 /\ Ends(fp) =>
              last.err = "EOFError"

\* ------------------------------------------------------------------------
\* AppendingTiffWriter
\* ------------------------------------------------------------------------

fieldSizes == <<0, 1, 1, 2, 4, 8, 1, 1, 2, 4, 8, 4, 8, 4, 2, 4, 8>>

Tags == {273, 288, 324, 519, 520, 521}

\* whereToWriteNewIFDOffset = None
NoSlot == -1

\* the writer wrt with its stream f at position p, and the exception raised
Writing(wrt, f, p) == [wr |-> wrt, f |-> f, p |-> p, err |-> ""]

\* f.seek(p); f.write(data), on a stream that grows and zero-fills
fseek(t, p) == [t EXCEPT !.p = p]

WriteAt(f, p, data) ==
    (IF p > Len(f) THEN f \o Zeros(p - Len(f)) ELSE SubSeq(f, 1, p))
    \o data \o SubSeq(f, p + Len(data) + 1, Len(f))

fwrite(t, data) == [t EXCEPT !.f = WriteAt(t.f, t.p, data), !.p = t.p + Len(data)]

\* tell() of the writer
tell(t) == t.p - t.wr.offsetOfNewPage

Supported(field_size) == field_size \in {2, 4, 8}

fmt_(field_size) ==
    CASE field_size = 2 -> "H"
      [] field_size = 4 -> "L"
      [] field_size = 8 -> "Q"

\* _read: the value, when the stream holds field_size bytes at its position;
\* struct.error with the stream at its end otherwise
CanRead(t, size) == t.p + size <= Len(t.f)

read_(t, field_size) == unpack(t.wr.endian, fmt_(field_size), read(t.f, t.p, field_size))

ShortRead(t) == Raise(fseek(t, IF t.p > Len(t.f) THEN t.p ELSE Len(t.f)), "struct.error")

write_(t, value, field_size) ==
    IF ~Supported(field_size) THEN Raise(t, "RuntimeError")
    ELSE IF ~CanPack(fmt_(field_size), value) THEN Raise(t, "struct.error")
    ELSE fwrite(t, pack(t.wr.endian, fmt_(field_size), value))

rewriteLast_(t, value, field_size, new_field_size) ==
    write_(fseek(t, t.p - field_size), value,
           IF new_field_size = 0 THEN field_size ELSE new_field_size)

setEndian(t, endian) == [t EXCEPT !.wr.endian = endian]

Paged(t) == [t EXCEPT !.wr.offsetOfNewPage = t.p]

goToEndUnpadded(t) ==
    IF t.err # "" THEN t ELSE Paged(fseek(t, Len(t.f)))

goToEnd(t) ==
    IF t.err # "" THEN t
    ELSE Paged(fwrite(fseek(t, Len(t.f)),
                      IF Len(t.f) % 16 # 0 THEN Zeros(16 - (Len(t.f) % 16)) ELSE <<>>))

\* one turn of the `while True` of skipIFDs: the slot is recorded when the
\* offset read is 0, else the table at the offset is skipped
SkipTable(t, num_tags) == fseek(t, t.p + PosOf(num_tags) * EntrySize(t.wr.bigtiff))

\* a local variable: the one value of its expression, computed once
Once(S) == CHOOSE x \in S : TRUE

SkipTo(t) ==
    IF ~CanRead(t, CountSize(t.wr.bigtiff)) THEN ShortRead(t)
    ELSE Once({SkipTable(fseek(t, t.p + CountSize(t.wr.bigtiff)), num_tags) :
                  num_tags \in {read_(t, CountSize(t.wr.bigtiff))}})

SkipFrom(t, ifd_offset) ==
    IF ifd_offset.m = <<>>
    THEN [t EXCEPT !.wr.whereToWriteNewIFDOffset = t.p - SlotSize(t.wr.bigtiff)]
    ELSE Once({SkipTo(at) : at \in {fseek(t, PosOf(ifd_offset))}})

skipIFD(t) ==
    IF ~CanRead(t, SlotSize(t.wr.bigtiff)) THEN ShortRead(t)
    ELSE Once({SkipFrom(fseek(t, t.p + SlotSize(t.wr.bigtiff)), ifd_offset) :
                  ifd_offset \in {read_(t, SlotSize(t.wr.bigtiff))}})

\* the loop has been left, by break or by an exception
Broke(t) == t.err # "" \/ t.wr.whereToWriteNewIFDOffset # NoSlot

RECURSIVE skipIFDs(_)
SkipOn(t) == IF Broke(t) THEN t ELSE skipIFDs(t)

skipIFDs(t) == SkipOn(skipIFD(t))

\* setup
Reset(t) == [t EXCEPT !.wr.whereToWriteNewIFDOffset = NoSlot, !.wr.offsetOfNewPage = 0]

Headed(t, iimm) ==
    [t EXCEPT !.wr.IIMM = iimm,
              !.wr.bigtiff = \E i \in DOMAIN iimm : iimm[i] = 43,
              !.wr.isFirst = (iimm = <<>>)]

\* setup up to the header of the file
setupHead(t) ==
    Headed(fseek(Reset(t), t.wr.beginning + Len(read(t.f, t.wr.beginning, 4))),
           read(t.f, t.wr.beginning, 4))

\* no IFD to skip: an empty file, or RuntimeError on an invalid header
NothingToSkip(t) == t.wr.isFirst \/ t.wr.IIMM \notin PREFIXES

\* setEndian, and the stream at the offset of the first IFD
Skipping(t) ==
    fseek(setEndian(t, IF SubSeq(t.wr.IIMM, 1, 2) = II THEN "<" ELSE ">"),
          t.p + (IF t.wr.bigtiff THEN 4 ELSE 0))

SetupAt(t) ==
    IF t.wr.isFirst THEN t
    ELSE IF t.wr.IIMM \notin PREFIXES THEN Raise(t, "RuntimeError")
    ELSE goToEnd(skipIFDs(Skipping(t)))

setupWriter(t) == SetupAt(setupHead(t))

\* AppendingTiffWriter(fn) for a stream at position p, the caller's or the
\* one opened for the path fn; endian is read only after setEndian has set
\* it, closed is the state of the stream self.f
NewWriter(p, is_path) ==
    [open |-> TRUE, close_fp |-> is_path, closed |-> FALSE, beginning |-> p,
     whereToWriteNewIFDOffset |-> NoSlot,
     offsetOfNewPage |-> 0, IIMM |-> <<>>, bigtiff |-> FALSE, isFirst |-> FALSE,
     endian |-> "<"]

init(f, p, is_path) == setupWriter(Writing(NewWriter(p, is_path), f, p))

\* fixIFD and _fixOffsets
NewFieldSize(big, field_size, offset) ==
    IF big /\ field_size \in {2, 4} /\ ~IntLt(offset, Two32) THEN 8
    ELSE IF field_size = 2 /\ ~IntLt(offset, Two16) THEN 4
    ELSE 0

SeekAfter(t, p) == IF t.err # "" THEN t ELSE fseek(t, p)

RetypedNot(t, new_field_size) ==
    IF t.err # "" THEN t ELSE SeekAfter(t, t.p + 4)

\* the type rewritten after a promotion: rewind, writeShort, and back
Retyped(t, new_field_size) ==
    IF t.err # "" THEN t
    ELSE SeekAfter(write_(fseek(t, t.p - new_field_size - 4 - 2), I(new_field_size), 2),
                   t.p + 4)

RelocatedAnyCount(t, count, field_size, offset, new_field_size) ==
    IF new_field_size = 0 THEN rewriteLast_(t, offset, field_size, 0)
    ELSE Retyped(rewriteLast_(t, offset, field_size, new_field_size), new_field_size)

Relocated(t, count, field_size, offset, new_field_size) ==
    IF new_field_size = 0 THEN rewriteLast_(t, offset, field_size, 0)
    ELSE IF count # I(1) THEN Raise(t, "RuntimeError")
    ELSE Retyped(rewriteLast_(t, offset, field_size, new_field_size), new_field_size)

FixOffset(t, count, field_size) ==
    IF ~Supported(field_size) THEN Raise(t, "RuntimeError")
    ELSE IF ~CanRead(t, field_size) THEN ShortRead(t)
    ELSE Relocated(fseek(t, t.p + field_size), count, field_size,
                   IntAdd(read_(t, field_size), I(t.wr.offsetOfNewPage)),
                   NewFieldSize(t.wr.bigtiff, field_size,
                                IntAdd(read_(t, field_size), I(t.wr.offsetOfNewPage))))

RECURSIVE FixOffsetsLoop(_, _, _, _)
FixOffsetsLoop(t, n, count, field_size) ==
    IF t.err # "" \/ n = 0 THEN t
    ELSE FixOffsetsLoop(FixOffset(t, count, field_size), n - 1, count, field_size)

fixOffsets_(t, count, field_size) == FixOffsetsLoop(t, PosOf(count), count, field_size)

\* total_size <= fmt_size
IsLocal(field_size, count, fmt_size) ==
    \/ field_size = 0
    \/ IntLt(count, I(fmt_size + 1)) /\ field_size * PosOf(count) <= fmt_size

FixDataSkipped(t, tag, field_size, count, offset) == t

FixData(t, tag, field_size, count, offset) ==
    IF t.err # "" \/ tag \notin Tags THEN t
    ELSE SeekAfter(fixOffsets_(fseek(t, PosOf(offset)), count, field_size), t.p)

FixSized(t, tag, field_size, count, is_local) ==
    IF is_local
    THEN IF tag \in Tags
         THEN SeekAfter(fixOffsets_(t, count, field_size), t.p + SlotSize(t.wr.bigtiff))
         ELSE fseek(t, t.p + SlotSize(t.wr.bigtiff))
    ELSE IF ~CanRead(t, SlotSize(t.wr.bigtiff)) THEN ShortRead(t)
    ELSE FixData(rewriteLast_(fseek(t, t.p + SlotSize(t.wr.bigtiff)),
                              IntAdd(read_(t, SlotSize(t.wr.bigtiff)),
                                     I(t.wr.offsetOfNewPage)),
                              SlotSize(t.wr.bigtiff), 0),
                 tag, field_size, count,
                 IntAdd(read_(t, SlotSize(t.wr.bigtiff)), I(t.wr.offsetOfNewPage)))

FixTyped(t, tag, field_type, count) ==
    IF field_type >= Len(fieldSizes) THEN Raise(t, "IndexError")
    ELSE FixSized(t, tag, fieldSizes[field_type + 1], count,
                  IsLocal(fieldSizes[field_type + 1], count, SlotSize(t.wr.bigtiff)))

\* tag, type and count of an entry: 8 bytes, 12 in BigTIFF
EntryHead(big) == IF big THEN 12 ELSE 8

FixEntry(t) ==
    IF ~CanRead(t, EntryHead(t.wr.bigtiff)) THEN ShortRead(t)
    ELSE FixTyped(fseek(t, t.p + EntryHead(t.wr.bigtiff)),
                  PosOf(unpack(t.wr.endian, "H", read(t.f, t.p, 2))),
                  PosOf(unpack(t.wr.endian, "H", read(t.f, t.p + 2, 2))),
                  unpack(t.wr.endian, SlotFmt(t.wr.bigtiff),
                         read(t.f, t.p + 4, SlotSize(t.wr.bigtiff))))

RECURSIVE FixEntries(_, _)
FixEntries(t, n) ==
    IF t.err # "" \/ n = 0 THEN t ELSE FixEntries(FixEntry(t), n - 1)

fixIFD(t) ==
    IF t.err # "" THEN t
    ELSE IF ~CanRead(t, CountSize(t.wr.bigtiff)) THEN ShortRead(t)
    ELSE FixEntries(fseek(t, t.p + CountSize(t.wr.bigtiff)),
                    PosOf(read_(t, CountSize(t.wr.bigtiff))))

\* finalize
LinkUnwritten(t, ifd_offset) ==
    IF t.wr.whereToWriteNewIFDOffset = NoSlot THEN Raise(t, "AssertionError")
    ELSE SeekAfter(fseek(t, t.wr.whereToWriteNewIFDOffset), PosOf(ifd_offset))

Link(t, ifd_offset) ==
    IF t.wr.whereToWriteNewIFDOffset = NoSlot THEN Raise(t, "AssertionError")
    ELSE SeekAfter(write_(fseek(t, t.wr.whereToWriteNewIFDOffset), ifd_offset,
                          SlotSize(t.wr.bigtiff)),
                   PosOf(ifd_offset))

FinalizeAt(t) ==
    IF ~CanRead(t, SlotSize(t.wr.bigtiff)) THEN ShortRead(t)
    ELSE fixIFD(Link(fseek(t, t.p + SlotSize(t.wr.bigtiff)),
                     IntAdd(read_(t, SlotSize(t.wr.bigtiff)), I(t.wr.offsetOfNewPage))))

FinalizeWithUnchecked(t, iimm) ==
    IF iimm # t.wr.IIMM THEN Raise(t, "RuntimeError")
    ELSE FinalizeAt(fseek(t, t.p + (IF t.wr.bigtiff THEN 4 ELSE 0)))

FinalizeWithLateCheck(t, iimm) ==
    IF iimm = <<>> THEN t
    ELSE IF iimm # t.wr.IIMM THEN Raise(fwrite(t, <<0>>), "RuntimeError")
    ELSE FinalizeAt(fseek(t, t.p + (IF t.wr.bigtiff THEN 4 ELSE 0)))

FinalizeWith(t, iimm) ==
    IF iimm = <<>> THEN t
    ELSE IF iimm # t.wr.IIMM THEN Raise(t, "RuntimeError")
    ELSE FinalizeAt(fseek(t, t.p + (IF t.wr.bigtiff THEN 4 ELSE 0)))

finalize(t) ==
    IF t.wr.isFirst THEN t
    ELSE FinalizeWith(fseek(t, t.wr.offsetOfNewPage
                               + Len(read(t.f, t.wr.offsetOfNewPage, 4))),
                      read(t.f, t.wr.offsetOfNewPage, 4))

\* newFrame: no setup when finalize raises
SetupAfter(t) == IF t.err # "" THEN t ELSE setupWriter(t)

newFrame(t) == SetupAfter(finalize(t))

\* close, and __exit__
Closed(t) ==
    IF t.err # "" \/ ~t.wr.close_fp THEN t ELSE [t EXCEPT !.wr.closed = TRUE]

close(t) == Closed(finalize(t))

exit_(t) == IF t.wr.close_fp THEN close(t) ELSE t

\* ImageFileDirectory_v2.save(fp), fp being the writer
SaveBlock(t, r) == IF r.ok THEN fwrite(t, r.data) ELSE Raise(t, "struct.error")

save(t, d) ==
    SaveBlock(IF tell(t) = 0 THEN fwrite(t, get_ifh(d)) ELSE t,
              tobytes(d, IF tell(t) = 0 THEN Len(get_ifh(d)) ELSE tell(t)))

\* _save(im, tf, filename): the directory, then the strip at the offset
\* save returns; the encoder may fail before it has written anything
WriteStrip(t, encoded) ==
    IF t.err # "" THEN t
    ELSE IF encoded THEN fwrite(t, PixelData) ELSE Raise(t, "OSError")

save_(t, d, encoded) == WriteStrip(save(t, d), encoded)

\* ------------------------------------------------------------------------
\* Pages appended to an empty stream: _save_all's rounds of _save and
\* newFrame
\* ------------------------------------------------------------------------

MaxRounds == 3

\* the pages written: one strip; one strip and a value outside the entry
\* table; two strips; a strip offset typed SHORT close to 2**16; a strip
\* offset typed LONG close to 2**32; a page with a value its type cannot hold;
\* two strip offsets typed SHORT, and two typed LONG, the second close to
\* the limit of the type
WriterKinds == {"img", "aux", "strips", "short", "long", "bad", "shorts", "longs"}

\* a page of each kind that the encoder completes, and one it fails on
WriterInputs == (WriterKinds \X {TRUE}) \cup {<<"img", FALSE>>}

\* the formats a page is written in: that of the file, and for the plain
\* page any format, the file's or not
AllFormats == {II, MM} \X BOOLEAN

PageFormats(w, kind) ==
    IF ~w.open THEN {}
    ELSE IF kind = "img" \/ w.IIMM = <<>> THEN AllFormats
    ELSE {f \in AllFormats : f[1] = SubSeq(w.IIMM, 1, 2) /\ f[2] = w.bigtiff}

NearTwo16 == I(65440)
NearTwo32 == PyInt(FALSE, <<106, 255, 255, 255>>)

StripsOf(d, kind) ==
    CASE kind = "strips" -> setitem(d, STRIPOFFSETS, Tuple(<<I(0), I(1)>>))
      [] kind = "short" -> SetTyped(d, STRIPOFFSETS, SHORT, <<NearTwo16>>)
      [] kind = "long" -> setitem(d, STRIPOFFSETS, Tuple(<<NearTwo32>>))
      [] kind = "shorts" -> SetTyped(d, STRIPOFFSETS, SHORT, <<I(0), NearTwo16>>)
      [] kind = "longs" -> setitem(d, STRIPOFFSETS, Tuple(<<I(0), NearTwo32>>))
      [] OTHER -> setitem(d, STRIPOFFSETS, Tuple(<<I(0)>>))

\* the n-th page: its width tells it from the others
WriterPage(d0, kind, n) ==
    LET a == StripsOf(setitem(setitem(d0, IMAGEWIDTH, Scalar(I(n))),
                              IMAGELENGTH, Scalar(I(1))), kind)
    IN  IF kind \in {"aux", "short", "long"}
        THEN setitem(a, 65000, Tuple(<<I(1), I(2), I(3)>>))
        ELSE IF kind = "bad" THEN SetTyped(a, 65000, SHORT, <<I(70000)>>)
        ELSE a

\* what is kept of a page written: the file offset the page starts at, the
\* one its directory was written at, and its tags
Round(t, d) ==
    [start |-> t.wr.offsetOfNewPage,
     at |-> IF tell(t) = 0 THEN t.p + Len(get_ifh(d)) ELSE t.p, tags |-> TagSet(d)]

InitWriter ==
    /\ fp = <<>>
    /\ pos = 0
    /\ ifd = NewIfd(II, FALSE)
    /\ out = NoOut
    /\ last = NoOp
    /\ ops = 0
    /\ rd = NoReader
    /\ wr = NoWriter

\* the state after a call that left the writer and its stream as in t; what
\* is kept of the call: the exception raised, the pages written so far and
\* the bytes of the file before the call
Wrote(t, op) ==
    /\ wr' = t.wr
    /\ fp' = t.f
    /\ pos' = t.p
    /\ last' = op
    /\ UNCHANGED <<out, rd>>

\* AppendingTiffWriter(fn), fn being the caller's stream or the path of the
\* file; there is no writer when setup raises
OpenWriter(is_path) ==
    /\ ~wr.open
    /\ last.op = "init"
    /\ \E t \in {init(fp, pos, is_path)} :
          Wrote(IF t.err = "" THEN t ELSE [t EXCEPT !.wr = NoWriter],
                [op |-> "open", err |-> t.err, rounds |-> <<>>, before |-> fp])
    /\ UNCHANGED <<ifd, ops>>

\* _save(ims, tf, filename) for the next page
WritePage(prefix, big_tiff, kind, encoded) ==
    /\ wr.open
    /\ last.op \in {"open", "newFrame"}
    /\ last.err = ""
    /\ ops < MaxRounds
    /\ \E d \in {WriterPage(NewIfd(prefix, big_tiff), kind, ops + 1)} :
          /\ ifd' = d
          /\ \E t \in {save_(Writing(wr, fp, pos), d, encoded)} :
                Wrote(t, [op |-> "write", err |-> t.err,
                          rounds |-> Append(last.rounds, Round(Writing(wr, fp, pos), d)),
                          before |-> fp])
    /\ UNCHANGED ops

\* tf.newFrame()
NewFrame ==
    /\ wr.open
    /\ last.op = "write"
    /\ last.err = ""
    /\ \E t \in {newFrame(Writing(wr, fp, pos))} :
          Wrote(t, [op |-> "newFrame", err |-> t.err, rounds |-> last.rounds,
                    before |-> fp])
    /\ ops' = ops + 1
    /\ UNCHANGED ifd

\* tf.finalize(), on the page in progress or with no page written
Finalize ==
    /\ wr.open
    /\ \/ last.op = "write"
       \/ last.op \in {"open", "newFrame"} /\ last.err = ""
    /\ \E t \in {finalize(Writing(wr, fp, pos))} :
          Wrote(t, [op |-> "finalize", err |-> t.err, rounds |-> last.rounds,
                    before |-> fp])
    /\ UNCHANGED <<ifd, ops>>

\* the end of `with AppendingTiffWriter(fn) as tf:`
Exit ==
    /\ wr.open
    /\ \/ last.op \in {"write", "finalize"}
       \/ last.op \in {"open", "newFrame"} /\ last.err = ""
    /\ \E t \in {exit_(Writing(wr, fp, pos))} :
          Wrote(t, [op |-> "exit", err |-> t.err, rounds |-> last.rounds,
                    before |-> fp, page |-> last.op = "write" /\ last.err = "",
                    again |-> last.op = "finalize" /\ last.err = ""])
    /\ UNCHANGED <<ifd, ops>>

NextWriter ==
    \/ \E is_path \in BOOLEAN : OpenWriter(is_path)
    \/ \E i \in WriterInputs : \E f \in PageFormats(wr, i[1]) :
          WritePage(f[1], f[2], i[1], i[2])
    \/ NewFrame
    \/ Finalize
    \/ Exit

SpecWriter == InitWriter /\ [][NextWriter]_vars

\* the directory read from the file at offset at
DirLoaded(file, at) == load(FileFormat(file), file, at)

\* the tags of a page but StripOffsets, whose type the writer may widen
OtherTags(ts) == {x \in ts : x[1] # STRIPOFFSETS}

\* C1: for every file built by the appending writer from an empty stream by
\* k >= 1 rounds of (write one complete page, newFrame), walking next_offset
\* from the header's first-IFD offset visits exactly k IFDs, the i-th being
\* the one written in round i, and the k-th IFD's next_offset is 0.
C1_ChainInOrder ==
    wr.open /\ last.op = "newFrame" /\ last.err = "" =>
        /\ Len(last.rounds) >= 1
        /\ Len(ChainOf(fp)) = Len(last.rounds)
        /\ \A i \in 1..Len(last.rounds) :
              /\ ChainOf(fp)[i] = I(last.rounds[i].at)
              /\ OtherTags(TagSet(DirLoaded(fp, last.rounds[i].at)))
                 = OtherTags(last.rounds[i].tags)
        /\ Ends(fp)

C1_Witness ==
    /\ wr.open /\ last.op = "newFrame" /\ last.err = ""
    /\ Len(last.rounds) >= 2
    /\ 65000 \in DOMAIN ifd.tagtype
    /\ Len(ChainOf(fp)) = Len(last.rounds)

\* C11: each time the appending writer is set up on a non-empty file,
\* offsetOfNewPage is a multiple of 16, at least the file's previous length
\* and less than 16 bytes beyond it, and the bytes added between the previous
\* end and offsetOfNewPage are NUL.
C11_PageAligned ==
    wr.open /\ last.op = "newFrame" /\ last.err = "" /\ last.before # <<>> =>
        /\ wr.offsetOfNewPage % 16 = 0
        /\ wr.offsetOfNewPage >= Len(last.before)
        /\ wr.offsetOfNewPage < Len(last.before) + 16
        /\ Len(fp) = wr.offsetOfNewPage
        /\ \A i \in (Len(last.before) + 1)..Len(fp) : fp[i] = 0

C11_Witness ==
    /\ wr.open /\ last.op = "newFrame" /\ last.err = ""
    /\ Len(last.rounds) >= 2
    /\ wr.offsetOfNewPage > Len(last.before)
    /\ wr.offsetOfNewPage % 16 = 0

\* The entry table of the directory at offset at of a file, the page
\* written last and the offset it starts at, and the table of its directory
\* before and after the call.
PageTable(file, at) == Table(FileFormat(file), DirAt(file, I(at)))

LastRound == last.rounds[Len(last.rounds)]

TableBefore == PageTable(last.before, LastRound.at)
TableAfter == PageTable(fp, LastRound.at)

\* an appended page has been finalized by newFrame
Appended ==
    /\ wr.open /\ last.op = "newFrame" /\ last.err = ""
    /\ Len(last.rounds) >= 2

\* the first value an entry holds in its slot, read by its type
TypedValue(d, e) ==
    unpack(d.endian, fmt_(fieldSizes[e.typ + 1]), SubSeq(e.slot, 1, fieldSizes[e.typ + 1]))

RelocatedValue(d, e, start) == IntAdd(TypedValue(d, e), I(start))

\* an inline offset that is to be widened
InlineOffset(e, types) == e.tag \in Tags /\ e.typ \in types /\ e.count = 1

SameHead(a, b) == a.tag = b.tag /\ a.typ = b.typ /\ a.count = b.count

\* C12: BigTIFF append: when an inline SHORT or LONG rewrite-set entry with
\* count 1 holds an offset that after adding offsetOfNewPage is >= 2**32,
\* then after finalize the entry's type code is 16 (LONG8), its count is
\* unchanged, its 8-byte slot holds the relocated offset, and every other
\* entry of the directory is intact.
C12_PromotedToLong8 ==
    Appended /\ FileFormat(fp).bigtiff =>
        \A i \in 1..Len(TableBefore) :
            /\ InlineOffset(TableBefore[i], {SHORT, LONG})
            /\ ~IntLt(RelocatedValue(FileFormat(fp), TableBefore[i], LastRound.start), Two32)
            => /\ Len(TableAfter) = Len(TableBefore)
               /\ TableAfter[i].tag = TableBefore[i].tag
               /\ TableAfter[i].typ = LONG8
               /\ TableAfter[i].count = TableBefore[i].count
               /\ TableAfter[i].slot
                  = pack(FileFormat(fp).endian, "Q",
                         RelocatedValue(FileFormat(fp), TableBefore[i], LastRound.start))
               /\ \A j \in 1..Len(TableBefore) :
                     j # i => SameHead(TableAfter[j], TableBefore[j])

\* the offsets of the directories of the pages written in rounds 1..n
RoundOffsets(n) == [i \in 1..n |-> I(last.rounds[i].at)]

\* the next-IFD slot the writer has recorded holds 0
SlotIsZero ==
    read(fp, wr.whereToWriteNewIFDOffset, SlotSize(wr.bigtiff))
    = Zeros(SlotSize(wr.bigtiff))

\* C13: while a page is being written with the appending writer, and until
\* finalize is called for it, the next_offset slot of the previously last
\* page holds 0, so the file read at that moment has exactly the previously
\* finalized pages in its chain; a finalize that finds no bytes written at
\* offsetOfNewPage changes no byte of the file.
C13_UnlinkedUntilFinalize ==
    /\ wr.open /\ last.op = "write" /\ Len(last.rounds) >= 2 =>
          /\ SlotIsZero
          /\ ChainOf(fp) = RoundOffsets(Len(last.rounds) - 1)
          /\ Ends(fp)
    /\ wr.open /\ last.op = "finalize" /\ Len(last.before) <= wr.offsetOfNewPage =>
          /\ last.err = ""
          /\ fp = last.before

C13_Witness ==
    /\ wr.open /\ last.op = "write" /\ Len(last.rounds) = 3
    /\ last.err = "OSError"
    /\ Len(fp) > Len(last.before)
    /\ Len(ChainOf(fp)) = 2


\* C14: leaving the writer's scope finalizes the page in progress (the page
\* is the last of the chain afterwards), and the stream is closed exactly
\* when the writer opened it itself
C14_ExitFinalizes ==
    last.op = "exit" /\ last.page /\ last.err = "" =>
        /\ ChainOf(fp) = RoundOffsets(Len(last.rounds))
        /\ wr.closed = wr.close_fp

\* the same, for a writer that was given a path
ExitOfOwnStream ==
    last.op = "exit" /\ last.page /\ last.err = "" /\ wr.close_fp =>
        /\ ChainOf(fp) = RoundOffsets(Len(last.rounds))
        /\ wr.closed


\* C15: in every reader state, once the total frame count is known it is
\* the number of offsets recorded in frame_positions
C15_TotalIsPositions ==
    rd.open /\ rd.n_frames # NoCount => rd.n_frames = Len(rd.frame_pos)


\* The payload of entry e of a block at base, read from the slot or from the
\* auxiliary area; the payload tobytes is to store for a tag: its values,
\* for StripOffsets each increased by the end-of-IFD position.
StoredPayload(d, base, data, e) ==
    IF e.size <= SlotSize(d.bigtiff) THEN SubSeq(e.slot, 1, e.size)
    ELSE SubSeq(data, e.off - base + 1, e.off - base + e.size)

RECURSIVE PaddedAux(_)
PaddedAux(sp) ==
    IF sp = <<>> THEN 0 ELSE ((sp[1].size + 1) \div 2) * 2 + PaddedAux(Tail(sp))

EndOfIfd(d, base, tb) == TableEnd(d, base, Len(tb)) + PaddedAux(Spilled(d, tb))

PayloadOf(d, item, end) ==
    write(d.endian, d.tagtype[item.tag],
          IF item.tag = STRIPOFFSETS THEN Shifted(item.val.e, end) ELSE item.val.e)

StoredAsExpected(d, base, data, e, w) ==
    w.ok /\ StoredPayload(d, base, data, e) = w.data

StripsPatched(d, base, data, tb, items) ==
    /\ Len(tb) = Len(items)
    /\ \A i \in 1..Len(tb) :
          StoredAsExpected(d, base, data, tb[i],
                           PayloadOf(d, items[i], EndOfIfd(d, base, tb)))

\* C16: after tobytes(base_offset) every StripOffsets value stored in the
\* block is its value before plus the end-of-IFD position, inline or in the
\* auxiliary area, and the values of all other tags are stored unchanged
C16_StripOffsetsPatched ==
    out.st = "ok" =>
        StripsPatched(ifd, out.base, out.data, Table(ifd, out.data), SerializedItems(ifd))

\* the same, outside big-endian BigTIFF
StripsPatchedElsewhere ==
    out.st = "ok" /\ ~(ifd.bigtiff /\ ifd.prefix = MM) =>
        StripsPatched(ifd, out.base, out.data, Table(ifd, out.data), SerializedItems(ifd))


\* the spilled entries that precede entry i of the table
SpilledBefore(d, tb, i) == Spilled(d, SubSeq(tb, 1, i - 1))

\* entry e holds its payload in the slot, left-aligned and NUL-padded
InlineStored(d, e, payload) ==
    /\ SubSeq(e.slot, 1, e.size) = payload
    /\ SubSeq(e.slot, e.size + 1, SlotSize(d.bigtiff))
          = Zeros(SlotSize(d.bigtiff) - e.size)

\* entry e points at its payload in the auxiliary area, which starts where
\* the padded payloads of the entries before it end
SpillStored(d, base, data, tb, i, payload) ==
    /\ tb[i].off = TableEnd(d, base, Len(tb)) + PaddedAux(SpilledBefore(d, tb, i))
    /\ SubSeq(data, tb[i].off - base + 1, tb[i].off - base + tb[i].size) = payload

\* the payload of a tag is the encoding of its values; for StripOffsets it
\* is what the patch stored
PlacedPayload(d, base, data, e, item, w) ==
    IF item.tag = STRIPOFFSETS THEN StoredPayload(d, base, data, e) ELSE w.data

Placed(d, base, data, tb, i, payload) ==
    /\ tb[i].size = Len(payload)
    /\ IF Len(payload) <= SlotSize(d.bigtiff)
       THEN InlineStored(d, tb[i], payload)
       ELSE SpillStored(d, base, data, tb, i, payload)

InlineOrSpilled(d, base, data, tb, items, tags) ==
    /\ Len(tb) = Len(items)
    /\ Len(data) = TableEnd(d, 0, Len(tb)) + PaddedAux(Spilled(d, tb))
    /\ \A i \in 1..Len(tb) :
          items[i].tag \in tags =>
              Placed(d, base, data, tb, i,
                     PlacedPayload(d, base, data, tb[i], items[i],
                                   write(d.endian, d.tagtype[items[i].tag], items[i].val.e)))

\* C17: a payload of at most the slot size is stored in the entry,
\* left-aligned and NUL-padded, and adds no auxiliary bytes; a longer one is
\* in the auxiliary area and the slot holds base_offset plus the position in
\* the block at which that payload starts
C17_InlineOrSpilled ==
    out.st = "ok" =>
        InlineOrSpilled(ifd, out.base, out.data, Table(ifd, out.data),
                        SerializedItems(ifd), IfdAllTags)

\* the same for the tags the StripOffsets patch does not touch
UnpatchedInlineOrSpilled ==
    out.st = "ok" =>
        InlineOrSpilled(ifd, out.base, out.data, Table(ifd, out.data),
                        SerializedItems(ifd), IfdAllTags \ {STRIPOFFSETS})


\* the auxiliary area of a block: every payload at an even file offset, one
\* after the other, an odd-length payload followed by exactly one NUL byte,
\* so that the area is as long as the payloads and their pad bytes
PadIsNul(base, data, e) ==
    e.size % 2 = 1 => data[e.off - base + e.size + 1] = 0

AuxEven(d, base, data, tb, sp) ==
    /\ Len(data) = TableEnd(d, 0, Len(tb)) + PaddedAux(sp)
    /\ PaddedAux(sp) % 2 = 0
    /\ \A i \in 1..Len(sp) :
          /\ sp[i].off % 2 = 0
          /\ sp[i].off = TableEnd(d, base, Len(tb)) + PaddedAux(SubSeq(sp, 1, i - 1))
          /\ PadIsNul(base, data, sp[i])

\* C18 as stated: whatever the base offset, every auxiliary payload begins
\* at an even file offset and the padded auxiliary area has even length
C18_AuxEven_Original ==
    out.st = "ok" =>
        AuxEven(ifd, out.base, out.data, Table(ifd, out.data),
                Spilled(ifd, Table(ifd, out.data)))

\* C18: when base_offset is even, every auxiliary payload written by tobytes
\* begins at an even file offset, payloads follow one another with one NUL
\* byte after each odd-length payload, and the padded area has even length
C18_AuxEven ==
    out.st = "ok" /\ out.base % 2 = 0 =>
        AuxEven(ifd, out.base, out.data, Table(ifd, out.data),
                Spilled(ifd, Table(ifd, out.data)))

\* an odd-length payload followed by another payload in the auxiliary area
C18_Witness ==
    /\ out.st = "ok" /\ out.base % 2 = 0
    /\ Len(Spilled(ifd, Table(ifd, out.data))) >= 2
    /\ Spilled(ifd, Table(ifd, out.data))[1].size % 2 = 1


\* count x field size of an entry, and whether that fits the slot
TotalSize(e) == fieldSizes[e.typ + 1] * e.count

Local(d, e) == TotalSize(e) <= SlotSize(d.bigtiff)

\* the payload of an entry: its slot, or the bytes of the file at its
\* offset, which counts from shift
PayloadBytes(d, file, e, shift) ==
    IF Local(d, e) THEN SubSeq(e.slot, 1, TotalSize(e))
    ELSE read(file, e.off + shift, TotalSize(e))

\* the count values of field_size bytes each that a payload holds
FieldValues(d, bytes, field_size, count) ==
    [k \in 1..count |->
        unpack(d.endian, fmt_(field_size),
               SubSeq(bytes, (k - 1) * field_size + 1, k * field_size))]

OffsetsOf(d, file, e, shift) ==
    FieldValues(d, PayloadBytes(d, file, e, shift), fieldSizes[e.typ + 1], e.count)

\* _fixOffsets would widen one of the values
Widened(d, vals, field_size, start) ==
    \E k \in 1..Len(vals) :
        NewFieldSize(d.bigtiff, field_size, IntAdd(vals[k], I(start))) # 0

NeedsPromotion(d, file, tb, start) ==
    \E i \in 1..Len(tb) :
        /\ tb[i].tag \in Tags
        /\ Widened(d, OffsetsOf(d, file, tb[i], start), fieldSizes[tb[i].typ + 1], start)

\* entry b of the page written at start, and entry a that finalize made
\* of it
RelocatedEntry(d, before, after, b, a, start) ==
    /\ SameHead(a, b)
    /\ Local(d, b) => SubSeq(a.slot, TotalSize(b) + 1, SlotSize(d.bigtiff))
                      = SubSeq(b.slot, TotalSize(b) + 1, SlotSize(d.bigtiff))
    /\ ~Local(d, b) => a.off = b.off + start
    /\ IF b.tag \in Tags
       THEN OffsetsOf(d, after, a, 0) = Shifted(OffsetsOf(d, before, b, start), start)
       ELSE PayloadBytes(d, after, a, 0) = PayloadBytes(d, before, b, start)

RelocatedTable(d, before, after, tb, ta, start) ==
    /\ Len(ta) = Len(tb)
    /\ \A i \in 1..Len(tb) : RelocatedEntry(d, before, after, tb[i], ta[i], start)

NextOffsetAt(d, file, at, n) ==
    read(file, TableEnd(d, at, n) - SlotSize(d.bigtiff), SlotSize(d.bigtiff))

\* C19: after finalize of an appended page that needs no width promotion,
\* the offset of every entry whose count x field size exceeds the slot is
\* increased by offsetOfNewPage once, every value of a rewrite-set tag,
\* inline or at its relocated offset, is increased by offsetOfNewPage once,
\* and every other inline value, every tag id, type and count and the zero
\* next_offset of the IFD are unchanged
C19_Relocated ==
    /\ Appended
    /\ ~NeedsPromotion(FileFormat(fp), last.before, TableBefore, LastRound.start)
    => /\ RelocatedTable(FileFormat(fp), last.before, fp, TableBefore, TableAfter,
                         LastRound.start)
       /\ NextOffsetAt(FileFormat(fp), fp, LastRound.at, Len(TableAfter))
          = Zeros(SlotSize(FileFormat(fp).bigtiff))

\* an appended page with its rewrite-set values in the auxiliary area
C19_Witness ==
    /\ Appended
    /\ LastRound.start > 0
    /\ ~NeedsPromotion(FileFormat(fp), last.before, TableBefore, LastRound.start)
    /\ \E i \in 1..Len(TableBefore) :
          /\ TableBefore[i].tag \in Tags
          /\ ~Local(FileFormat(fp), TableBefore[i])


\* entry i of the table is an inline SHORT offset that leaves 16 bits when
\* the page start is added
ShortOverflows(d, tb, i, start) ==
    /\ InlineOffset(tb[i], {SHORT})
    /\ ~IntLt(RelocatedValue(d, tb[i], start), Two16)

PromotedToLong(d, before, after, tb, ta, i, start) ==
    /\ Len(ta) = Len(tb)
    /\ ta[i].tag = tb[i].tag
    /\ ta[i].typ = LONG
    /\ ta[i].count = tb[i].count
    /\ ta[i].slot = pack(d.endian, "L", RelocatedValue(d, tb[i], start))
    /\ \A j \in 1..Len(tb) :
          j # i => RelocatedEntry(d, before, after, tb[j], ta[j], start)

\* C20: Classic append: when an inline SHORT rewrite-set entry with count 1
\* holds an offset that after adding offsetOfNewPage is >= 2**16, then after
\* finalize its type is LONG, its tag id and count are unchanged, its slot
\* holds the relocated offset, and the other entries of the directory are
\* relocated from their own positions
C20_PromotedToLong ==
    Appended /\ ~FileFormat(fp).bigtiff =>
        \A i \in 1..Len(TableBefore) :
            ShortOverflows(FileFormat(fp), TableBefore, i, LastRound.start) =>
                PromotedToLong(FileFormat(fp), last.before, fp, TableBefore, TableAfter,
                               i, LastRound.start)

\* a Classic page whose SHORT StripOffsets is widened, with an entry after it
C20_Witness ==
    /\ Appended /\ ~FileFormat(fp).bigtiff
    /\ \E i \in 1..Len(TableBefore) :
          /\ ShortOverflows(FileFormat(fp), TableBefore, i, LastRound.start)
          /\ i < Len(TableBefore)
          /\ TableAfter[i].typ = LONG


\* newFrame has run finalize on an appended page whose header is that of
\* the file
Finalizing ==
    /\ wr.open /\ last.op = "newFrame" /\ Len(last.rounds) >= 2
    /\ read(last.before, LastRound.start, 4) = wr.IIMM

\* a rewrite-set entry of several values, one of which needs a wider field
WideMany(d, file, e, start) ==
    /\ e.tag \in Tags
    /\ e.count > 1
    /\ Widened(d, OffsetsOf(d, file, e, start), fieldSizes[e.typ + 1], start)

\* each value of the entry is as it was or relocated in full, in a field of
\* the entry's type
NoneTruncated(d, before, after, b, a, start) ==
    /\ SameHead(a, b)
    /\ Local(d, b) => SubSeq(a.slot, TotalSize(b) + 1, SlotSize(d.bigtiff))
                      = SubSeq(b.slot, TotalSize(b) + 1, SlotSize(d.bigtiff))
    /\ \A k \in 1..b.count :
          \/ OffsetsOf(d, after, a, 0)[k] = OffsetsOf(d, before, b, start)[k]
          \/ OffsetsOf(d, after, a, 0)[k]
             = IntAdd(OffsetsOf(d, before, b, start)[k], I(start))

\* C21: when a rewrite-set entry with count > 1 holds an offset that needs
\* a wider field after relocation, finalize raises the "not implemented"
\* RuntimeError and the entry holds no truncated or mis-typed offset
C21_NotImplemented ==
    Finalizing =>
        \A i \in 1..Len(TableBefore) :
            WideMany(FileFormat(fp), last.before, TableBefore[i], LastRound.start) =>
                /\ last.err = "RuntimeError"
                /\ Len(TableAfter) = Len(TableBefore)
                /\ NoneTruncated(FileFormat(fp), last.before, fp,
                                 TableBefore[i], TableAfter[i], LastRound.start)

\* the second of two values needs a wider field and the first has been
\* relocated
C21_Witness ==
    /\ Finalizing
    /\ last.err = "RuntimeError"
    /\ \E i \in 1..Len(TableBefore) :
          /\ WideMany(FileFormat(fp), last.before, TableBefore[i], LastRound.start)
          /\ TableAfter[i].slot # TableBefore[i].slot


\* the four bytes at offsetOfNewPage before the call are not the header the
\* writer read at setup
HeaderDiffers ==
    /\ wr.open /\ ~wr.isFirst
    /\ read(last.before, wr.offsetOfNewPage, 4) # <<>>
    /\ read(last.before, wr.offsetOfNewPage, 4) # wr.IIMM

\* C22: finalize on a page whose first four bytes differ from the header
\* read at setup raises before it writes: no byte of the file has changed
\* and the next-IFD slot recorded at setup still holds 0
C22_HeaderMismatch ==
    last.op \in {"newFrame", "finalize"} /\ HeaderDiffers =>
        /\ last.err = "RuntimeError"
        /\ fp = last.before
        /\ SlotIsZero

\* a big-endian or BigTIFF page appended to a file of another format
C22_Witness ==
    /\ last.op \in {"newFrame", "finalize"} /\ HeaderDiffers
    /\ Len(last.rounds) >= 2
    /\ Len(fp) > LastRound.at


\* ------------------------------------------------------------------------
\* The tile plan of a page: _setup on the directory of an uncompressed
\* image laid out in strips or in tiles
\* ------------------------------------------------------------------------

MaxRows == 4
MaxStrips == 3
PlanWidth == 2

\* the k-th offset of a page
OffsetNo(k) == I(8 * k)

Offsets(n) == [k \in 1..n |-> OffsetNo(k)]

Sized(H) ==
    setitem(setitem(NewIfd(II, FALSE), IMAGEWIDTH, Scalar(I(PlanWidth))),
            IMAGELENGTH, Scalar(I(H)))

\* planar 0 and rows 0 stand for a directory without the tag
WithPlanar(d, planar) ==
    IF planar = 0 THEN d ELSE setitem(d, PLANAR_CONFIGURATION, Scalar(I(planar)))

StripDir(H, rows, n, planar) ==
    WithPlanar(setitem(IF rows = 0 THEN Sized(H)
                       ELSE setitem(Sized(H), ROWSPERSTRIP, Scalar(I(rows))),
                       STRIPOFFSETS, Tuple(Offsets(n))),
               planar)

TileDir(H, tw, th, n, planar) ==
    WithPlanar(setitem(setitem(setitem(Sized(H), TILEWIDTH, Scalar(I(tw))),
                               TILELENGTH, Scalar(I(th))),
                       TILEOFFSETS, Tuple(Offsets(n))),
               planar)

PlanDirs ==
    {StripDir(H, rows, n, planar) :
        H \in 1..MaxRows, rows \in 0..(MaxRows + 1), n \in 1..MaxStrips, planar \in 0..2}
    \cup {TileDir(H, tw, th, n, planar) :
        H \in 1..2, tw \in 1..(PlanWidth + 1), th \in 1..3, n \in 1..MaxStrips,
        planar \in 1..2}

\* the reader on the first page of a file, before _setup
ReaderAtFirst ==
    [open |-> TRUE, first |-> I(8), next |-> I(0), frame |-> 0, frame_pos |-> <<I(8)>>,
     n_frames |-> NoCount, is_animated |-> FALSE, size |-> <<>>, tile |-> <<>>]

InitTiles ==
    /\ ifd \in PlanDirs
    /\ rd = ReaderAtFirst
    /\ fp = <<>>
    /\ pos = 0
    /\ out = NoOut
    /\ last = NoOp
    /\ ops = 0
    /\ wr = NoWriter

\* self._setup()
Setup ==
    /\ last.op = "init"
    /\ \E w \in {setup(World(rd, ifd, pos))} : After(w, [op |-> "setup", err |-> w.err])

NextTiles == Setup

SpecTiles == InitTiles /\ [][NextTiles]_vars

\* ceil(a / b)
CeilDiv(a, b) == (a + b - 1) \div b

ImageRows == PosOf(rd.size[2])

\* the plan of n strips of h rows
StripTiles(n, h) ==
    [k \in 1..n |->
        Tile_(0, (k - 1) * h, PlanWidth, Lesser(k * h, ImageRows), OffsetNo(k))]

\* one strip for each offset, in offset order
StripPerOffset(d, plan) ==
    /\ IsIntTag(d, ROWSPERSTRIP) /\ TagInt(d, ROWSPERSTRIP) > 0
    /\ Len(ViewValue(d, STRIPOFFSETS).e) = CeilDiv(ImageRows, TagInt(d, ROWSPERSTRIP))
    => plan = StripTiles(Len(ViewValue(d, STRIPOFFSETS).e), TagInt(d, ROWSPERSTRIP))

\* one strip or one tile covers the whole image
CoversImage(d) ==
    IF STRIPOFFSETS \in IfdKeys(d)
    THEN ~IsIntTag(d, ROWSPERSTRIP) \/ TagInt(d, ROWSPERSTRIP) >= ImageRows
    ELSE TagInt(d, TILEWIDTH) >= PlanWidth /\ TagInt(d, TILELENGTH) >= ImageRows

OffsetsIn(d) ==
    ViewValue(d, IF STRIPOFFSETS \in IfdKeys(d) THEN STRIPOFFSETS ELSE TILEOFFSETS).e

OneTile(d, plan) ==
    CoversImage(d) /\ PlanarOf(d) # 2 =>
        plan = <<Tile_(0, 0, PlanWidth, ImageRows, OffsetsIn(d)[Len(OffsetsIn(d))])>>

PlannedPage == last.op = "setup" /\ last.err = ""

\* C23: with RowsPerStrip = h > 0 and ceil(H / h) strip offsets the plan has
\* one Tile per offset, in offset order, the k-th with bbox
\* (0, k*h, W, min((k+1)*h, H)); when one strip or tile covers the whole
\* image and the planar configuration is not 2, the plan is the one Tile of
\* the last offset
C23_TilePlan ==
    PlannedPage =>
        /\ STRIPOFFSETS \in IfdKeys(ifd) => StripPerOffset(ifd, rd.tile)
        /\ OneTile(ifd, rd.tile)

\* the first part alone
StripPlan == PlannedPage /\ STRIPOFFSETS \in IfdKeys(ifd) => StripPerOffset(ifd, rd.tile)

\* the second part, for strips and tiles that are exactly the image
ExactlyCovered ==
    IF STRIPOFFSETS \in IfdKeys(ifd)
    THEN ~IsIntTag(ifd, ROWSPERSTRIP) \/ TagInt(ifd, ROWSPERSTRIP) = ImageRows
    ELSE TagInt(ifd, TILEWIDTH) = PlanWidth /\ TagInt(ifd, TILELENGTH) = ImageRows

OneTileWhenExact == PlannedPage /\ ExactlyCovered => OneTile(ifd, rd.tile)


\* the directory the reader holds is the one of frame n of the file
HoldsFrame(n) ==
    /\ n + 1 <= Len(rd.frame_pos)
    /\ STRIPOFFSETS \in IfdKeys(ifd)
    /\ ViewValue(ifd, STRIPOFFSETS)
       = ViewValue(DirLoaded(fp, PosOf(rd.frame_pos[n + 1])), STRIPOFFSETS)

\* C24: a seek that fails with EOFError (the chain ends before the frame) or
\* with ValueError (next_offset >= 2**63) leaves the frame cursor unchanged:
\* tell() is the frame it was before the call and the directory held by the
\* reader is that frame's
C24_FailedSeek ==
    rd.open /\ last.op = "seek" /\ last.err \in {"EOFError", "ValueError"} =>
        /\ rd.frame = last.tell0
        /\ HoldsFrame(last.tell0)


\* ------------------------------------------------------------------------
\* AppendingTiffWriter on an existing file: setup, one turn of the loop of
\* skipIFDs at a time
\* ------------------------------------------------------------------------

\* the files of one to MaxPages pages whose chain ends, or leads back to
\* one of its pages
ExistingFiles ==
    UNION {{TiffFile(NewIfd(f[1], f[2]), kinds, ending) :
               ending \in {e \in Endings(NewIfd(f[1], f[2]), Len(kinds)) : e.k # "huge"}} :
           f \in AllFormats, kinds \in SeqsUpTo(PageKinds, MaxPages)}

InitSetup ==
    /\ fp \in ExistingFiles \cup {<<>>}
    /\ pos = 0
    /\ ifd = NewIfd(II, FALSE)
    /\ out = NoOut
    /\ last = NoOp
    /\ ops = 0
    /\ rd = NoReader
    /\ wr = NoWriter

\* where setup is: in the loop of skipIFDs, past it, returned or raised;
\* turn is the parity of the turns of the loop taken
Stage(t, nxt, turn) ==
    [op |-> IF t.err # "" THEN "raised" ELSE nxt, err |-> t.err, turn |-> turn]

\* AppendingTiffWriter(f): setup as far as the first turn of skipIFDs
BeginSetup ==
    /\ last.op = "init"
    /\ \E t \in {setupHead(Writing(NewWriter(0, FALSE), fp, 0))} :
          IF NothingToSkip(t)
          THEN Wrote(SetupAt(t), Stage(SetupAt(t), "done", 0))
          ELSE Wrote(Skipping(t), Stage(t, "skip", 0))
    /\ UNCHANGED <<ifd, ops>>

\* one turn of `while True:` in skipIFDs
SkipIFD ==
    /\ last.op = "skip"
    /\ \E t0 \in {Writing(wr, fp, pos)} : \E t \in {skipIFD(t0)} :
          Wrote(t, Stage(t, IF Broke(t) THEN "end" ELSE "skip", 1 - last.turn))
    /\ UNCHANGED <<ifd, ops>>

\* self.goToEnd(), and setup returns
GoToEnd ==
    /\ last.op = "end"
    /\ \E t0 \in {Writing(wr, fp, pos)} : \E t \in {goToEnd(t0)} :
          Wrote(t, Stage(t, "done", last.turn))
    /\ UNCHANGED <<ifd, ops>>

NextSetup == BeginSetup \/ SkipIFD \/ GoToEnd

\* the constructor runs on: each step it can take, it takes
SpecSetup ==
    /\ InitSetup /\ [][NextSetup]_vars
    /\ WF_vars(BeginSetup) /\ WF_vars(SkipIFD) /\ WF_vars(GoToEnd)

\* C25: setting up the appending writer terminates on every existing file,
\* also when a next_offset leads back to an IFD already walked
C25_SetupTerminates == <>(last.op \in {"done", "raised"})

\* setup on the files whose chain ends
SetupEnds == (fp # <<>> /\ Ends(fp)) => <>(last.op \in {"done", "raised"})


\* ------------------------------------------------------------------------
\* finalize called twice
\* ------------------------------------------------------------------------

\* close has called finalize on an appended page that finalize had already
\* linked and relocated
FinalizedAgain ==
    /\ last.op = "exit" /\ last.again /\ wr.close_fp
    /\ Len(last.rounds) >= 2
    /\ read(last.before, wr.offsetOfNewPage, 4) = wr.IIMM

\* C26: finalize is idempotent: called twice in a row on the same appended
\* page (finalize, then close) it leaves the file as a single call does,
\* every offset of the page relocated by offsetOfNewPage once
C26_FinalizeIdempotent == FinalizedAgain => last.err = "" /\ fp = last.before

\* the second call leaves the link to the page as the first wrote it
LinkedOnce ==
    FinalizedAgain =>
        read(fp, wr.whereToWriteNewIFDOffset, SlotSize(wr.bigtiff))
        = read(last.before, wr.whereToWriteNewIFDOffset, SlotSize(wr.bigtiff))


\* ------------------------------------------------------------------------
\* finalize aborted inside fixIFD
\* ------------------------------------------------------------------------

\* finalize has raised past the header check, on an entry of several values
\* one of which needs a wider field
AbortedInFixIFD ==
    /\ Finalizing
    /\ last.err = "RuntimeError"
    /\ \E i \in 1..Len(TableBefore) :
          WideMany(FileFormat(fp), last.before, TableBefore[i], LastRound.start)

\* C27: when finalize aborts inside fixIFD with the "not implemented" error
\* the chain is as before the call: the next-IFD slot of the previous page
\* still holds 0 and no offset of the new page has been rewritten
C27_AbortKeepsChain ==
    AbortedInFixIFD =>
        /\ SlotIsZero
        /\ TableAfter = TableBefore
        /\ fp = last.before

\* the bytes the aborted call has changed lie in the slot or in the new page
AbortWritesAhead ==
    AbortedInFixIFD =>
        /\ Len(fp) = Len(last.before)
        /\ \A k \in 1..Len(fp) :
              fp[k] # last.before[k] =>
                  \/ k > LastRound.start
                  \/ /\ k > wr.whereToWriteNewIFDOffset
                     /\ k <= wr.whereToWriteNewIFDOffset + SlotSize(wr.bigtiff)


\* ------------------------------------------------------------------------
\* tobytes on a loaded directory
\* ------------------------------------------------------------------------

\* the tag ids of the entries that follow the entry count of a block
WrittenTags(d, data) == {Table(d, data)[i].tag : i \in 1..Len(Table(d, data))}

\* C28: the entry count that tobytes writes, and the entries that follow
\* it, equal len(ifd) and cover exactly the keys that iteration yields, a
\* tag held only as a raw payload included
C28_CountIsLen ==
    out.st = "ok" =>
        /\ TableLen(ifd, out.data) = Cardinality(IfdKeys(ifd))
        /\ WrittenTags(ifd, out.data) = IfdKeys(ifd)

\* the block holds the decoded tags, and them only
CountIsDecoded ==
    out.st = "ok" =>
        /\ TableLen(ifd, out.data) = Cardinality(DictKeys(ifd.tags_v2))
        /\ WrittenTags(ifd, out.data) = DictKeys(ifd.tags_v2)


\* ------------------------------------------------------------------------
\* del ifd[tag], then ifd[tag] = value
\* ------------------------------------------------------------------------

\* the step is del ifd[tag]
Deletes(tag) == tag \in IfdKeys(ifd) /\ ifd' = delitem(ifd, tag)

\* the step is ifd[tag] = value on a directory that does not hold the tag
SetsAnew(tag, value) == tag \notin IfdKeys(ifd) /\ ifd' = setitem(ifd, tag, value)

\* C29: del ifd[tag] removes every trace of the tag: the tag is absent from
\* the keys and from the type table, and a later ifd[tag] = value infers the
\* type from the new value alone, as for a tag never set before
C29_DeleteForgets ==
    [][/\ \A tag \in IfdAllTags :
             Deletes(tag) => tag \notin IfdKeys(ifd') /\ tag \notin DOMAIN ifd'.tagtype
       /\ \A i \in IfdInputs :
             SetsAnew(i[1], i[2]) =>
                 ifd'.tagtype[i[1]] = TypeFor(Blank(ifd), i[1], i[2].e)]_vars

\* del ifd[tag] removes the tag from the keys
DeleteDropsKey ==
    [][\A tag \in IfdAllTags : Deletes(tag) => tag \notin IfdKeys(ifd')]_vars


\* ------------------------------------------------------------------------
\* load after load, on streams that may end inside the table
\* ------------------------------------------------------------------------

MaxLoads == 2

\* the bytes a crafted stream may lack at its end
Cuts == {0, 2}

InitNext ==
    /\ \E prefix \in {II, MM}, big_tiff \in BOOLEAN, base \in BaseOffsets,
          kinds \in SeqsUpTo(CraftKinds, MaxCraft), cut \in Cuts :
          /\ ifd = NewIfd(prefix, big_tiff)
          /\ \E s \in {Crafted(NewIfd(prefix, big_tiff), base, kinds)} :
                fp = SubSeq(s, 1, Len(s) - cut)
          /\ pos = base
    /\ out = NoOut
    /\ last = NoOp
    /\ ops = 0
    /\ rd = NoReader
    /\ wr = NoWriter

\* fp.seek(at); ifd.load(fp)
LoadAt(at) ==
    /\ ops < MaxLoads
    /\ at \in 0..Len(fp)
    /\ \E r \in {loadw(ifd, fp, at)} :
          /\ ifd' = r.ifd
          /\ pos' = r.pos
    /\ last' = [op |-> "load", at |-> at]
    /\ ops' = ops + 1
    /\ UNCHANGED <<fp, out, rd, wr>>

\* the table at pos, the tail of the stream, its end
NextLoads == \E at \in {pos, Len(fp) - 1, Len(fp)} : LoadAt(at)

SpecNext == InitNext /\ [][NextLoads]_vars

\* where the next-IFD slot of the directory at position at is, when the
\* stream holds the entry count
NextSlotAt(d, file, at) ==
    at + CountSize(d.bigtiff)
    + PosOf(unpack(d.endian, IF d.bigtiff THEN "Q" ELSE "H",
                   read(file, at, CountSize(d.bigtiff)))) * EntrySize(d.bigtiff)

\* the stream holds the whole table of the directory at position at
WholeTable(d, file, at) ==
    /\ at + CountSize(d.bigtiff) <= Len(file)
    /\ NextSlotAt(d, file, at) + SlotSize(d.bigtiff) <= Len(file)

\* the next_offset of the directory at position at, 0 after a short read
NextRead(d, file, at) ==
    IF WholeTable(d, file, at)
    THEN unpack(d.endian, SlotFmt(d.bigtiff),
                read(file, NextSlotAt(d, file, at), SlotSize(d.bigtiff)))
    ELSE I(0)

\* C30: after every load, next is the next_offset read from the directory
\* just loaded, or 0 when the load stopped on a short read; it is never the
\* value left by an earlier load or by the file header
C30_NextIsFresh == last.op = "load" => ifd.next = NextRead(ifd, fp, last.at)

\* after a load that read the whole table, next is the next_offset read
NextOfWholeTable ==
    last.op = "load" /\ WholeTable(ifd, fp, last.at) =>
        ifd.next = NextRead(ifd, fp, last.at)

============================================================================
